---- MODULE Spec2Model ----
(***************************************************************************)
(* A model of the IntelForge RAG pipeline (connectors.py, rag.py,          *)
(* utils.py, agent.py): PII anonymizer, source connectors, the             *)
(* multi-source ingestion orchestrator, file chunking, the retry/cached    *)
(* embedding and upsert layer, the composite retriever with its query      *)
(* validation, and the JSON chat history.                                  *)
(*                                                                         *)
(* Text is a sequence of tokens.  A token is a maximal piece of text that  *)
(* the anonymizer's patterns either match or leave alone.                  *)
(***************************************************************************)
EXTENDS Integers, Sequences, FiniteSets, TLC

VARIABLES
    \* ---- a single connector call (connectors.py) ----
    call,       \* the last connector call: its name, its world and what it returned
    \* ---- ingest_all_sources_async (connectors.py) ----
    opc,        \* position of the orchestrator call
    ocfg,       \* its arguments: which sources are enabled
    tasks,      \* the coroutines handed to asyncio.gather, in enqueue order
    order,      \* indices of tasks in the order they completed
    crm_ret,    \* what load_crm_documents returned ("none" before the call)
    all_docs,   \* the list being aggregated / returned
    oraised,    \* TRUE when the orchestrator call itself raised
    \* ---- process_file_async / process_file_sync_fallback on one file ----
    pf_file,    \* the file both paths are run on
    pf_async,   \* what process_file_async returned for it
    pf_sync,    \* what process_file_sync_fallback returned for it
    \* ---- ingest_documents_async (rag.py) ----
    ipc,            \* position of the call
    file_paths,     \* its argument
    fs,             \* the file system: what each path holds
    itasks,         \* process_file_async coroutines handed to gather
    fallback_calls, \* paths process_file_sync_fallback was called with, in order
    all_chunks,     \* the list being aggregated / returned
    iraised,        \* TRUE when the call raised
    \* ---- embed_text on a single string (rag.py) ----
    google_key,     \* GOOGLE_API_KEY is set
    client,         \* _embeddings_client: 0 is None, else the instance it holds
    instances,      \* number of client instances constructed so far
    threads,        \* per thread: its call of get_embeddings_client
    cache,          \* lru_cache of _embed_single_cached, least recently used first
    known,          \* per text: the vector a successful call returned, unless evicted since
    ecall,          \* the embed_text(string) call in progress or just finished
    native_dim,     \* width of the vectors the provider answers with
    lcall,          \* the embed_text(list) call in progress or just finished
    \* ---- upsert_documents_to_pinecone_async (rag.py) ----
    pinecone_key,   \* PINECONE_API_KEY is set to a real key
    hash_seed,      \* the string-hash seed of this interpreter process
    index,          \* the "ai-bos" index as the vector store holds it
    store,          \* entries of the index
    ucall,          \* the upsert call in progress or just finished
    \* ---- anonymize_text on a text given character by character ----
    anon,           \* the last anonymize_text call: its text and what it returned
    \* ---- JSONFileChatMessageHistory (agent.py) ----
    hfile,          \* the file at file_path
    hist,           \* the instance in use: its messages and its last operation
    \* ---- build_advanced_retriever and retrieval (rag.py, agent.py, main.py) ----
    builds,         \* the build_advanced_retriever calls made, in order
    uuids,          \* number of uuid4 ids generated so far
    rq              \* the retrieval in progress or just finished

orchVars == <<opc, ocfg, tasks, order, crm_ret, all_docs, oraised>>

chunkVars == <<pf_file, pf_async, pf_sync>>

ingVars == <<ipc, file_paths, fs, itasks, fallback_calls, all_chunks, iraised>>

vars == <<call, opc, ocfg, tasks, order, crm_ret, all_docs, oraised,
          pf_file, pf_async, pf_sync,
          ipc, file_paths, fs, itasks, fallback_calls, all_chunks, iraised,
          google_key, client, instances, threads, cache, known, ecall, native_dim, lcall,
          pinecone_key, hash_seed, index, store, ucall,
          anon, hfile, hist, builds, uuids, rq>>

embVars == <<google_key, client, instances, threads, cache, known, ecall, native_dim, lcall>>
upsVars == <<pinecone_key, hash_seed, index, store, ucall>>
appVars == <<anon, hfile, hist, builds, uuids, rq>>

\* ------------------------------------------------------------------------
\* Generic helpers
\* ------------------------------------------------------------------------
Range(s) == {s[i] : i \in 1..Len(s)}

RECURSIVE Flatten(_)
Flatten(ss) == IF ss = <<>> THEN <<>> ELSE Head(ss) \o Flatten(Tail(ss))

\* ------------------------------------------------------------------------
\* PII anonymizer (connectors.py 30-57)
\* ------------------------------------------------------------------------
PlainTokens == {"hello", "deal", "[SLACK_AUTH_ERROR]", "[GMAIL_AUTH_ERROR]",
                "[CRM_FILE_ERROR]", "[CRM_LOAD_ERROR]", "Subject:", "name:",
                "not-configured", "crm.json", "invalid_auth", "timeout"}

\* What each compiled pattern does to one token when used with .sub().
URL_EMAIL_sub(tok) ==
    IF tok = "email=user%40corp.com" THEN "[ANONYMIZED_EMAIL_PARAM]" ELSE tok

MAILTO_sub(tok) ==
    IF tok = "mailto:user@corp.com" THEN "[ANONYMIZED_MAILTO]" ELSE tok

EMAIL_sub(tok) ==
    CASE tok = "user@corp.com"        -> "[ANONYMIZED_EMAIL]"
      [] tok = "mailto:user@corp.com" -> "mailto:[ANONYMIZED_EMAIL]"
      [] OTHER                        -> tok

SSN_sub(tok) ==
    IF tok = "123-45-6789" THEN "[ANONYMIZED_SSN]" ELSE tok

PHONE_sub(tok) ==
    IF tok \in {"555-123-4567", "123-45-6789"} THEN "[ANONYMIZED_PHONE]" ELSE tok

PIITokens == {"email=user%40corp.com", "mailto:user@corp.com", "user@corp.com",
              "123-45-6789", "555-123-4567"}

anonymize_token(tok) ==
    PHONE_sub(SSN_sub(EMAIL_sub(MAILTO_sub(URL_EMAIL_sub(tok)))))

anonymize_text(text) == [i \in 1..Len(text) |-> anonymize_token(text[i])]

anonymize_documents(docs) ==
    [i \in 1..Len(docs) |->
        [docs[i] EXCEPT !.page_content = anonymize_text(docs[i].page_content)]]

\* A Document: page_content, metadata.source, and whether metadata has 'error'.
Document(content, source, error) ==
    [page_content |-> content, source |-> source, error |-> error]

\* All sequences over S of length at most n.
RECURSIVE SeqsUpTo(_, _)
SeqsUpTo(S, n) ==
    IF n = 0 THEN {<<>>}
    ELSE LET shorter == SeqsUpTo(S, n - 1)
         IN  shorter \cup {Append(s, x) : s \in shorter, x \in S}

\* ------------------------------------------------------------------------
\* The outside world of the connectors
\* ------------------------------------------------------------------------
MaxItems == 2   \* messages / records offered by a source in one fetch

\* One item as the remote API or the file delivers it: well formed with some
\* text (possibly blank), or malformed so that reading it raises.
RawItems == {[kind |-> "ok",  text |-> <<"hello">>],
             [kind |-> "ok",  text |-> <<"user@corp.com">>],
             [kind |-> "ok",  text |-> <<>>],
             [kind |-> "bad", text |-> <<>>]}

ItemLists == SeqsUpTo(RawItems, MaxItems)

SlackWorlds ==
    [token    : BOOLEAN,     \* SLACK_BOT_TOKEN set
     channel  : BOOLEAN,     \* channel id given by argument or SLACK_CHANNEL_ID
     join     : {"ok", "already_in_channel", "missing_scope", "network_error"},
     history  : {"ok", "api_error"},
     messages : ItemLists]

GmailWorlds ==
    [creds    : {"valid", "refresh_ok", "refresh_fail", "flow_ok", "flow_fail",
                 "no_credentials_file"},
     list     : {"ok", "http_error"},
     messages : ItemLists]

CrmWorlds ==
    [path     : {<<"crm.json">>, <<"user@corp.com", "crm.json">>},
     exists   : BOOLEAN,
     ext      : {".json", ".csv", ".xml"},
     readable : BOOLEAN,     \* open() and json.load / csv reader start succeed
     records  : ItemLists]

\* ------------------------------------------------------------------------
\* Slack connector (connectors.py 170-250)
\* ------------------------------------------------------------------------
\* The loop of _fetch_sync over the messages: blank texts are skipped, a
\* malformed message raises out of the loop.
\* (mutant) a malformed message ends the loop quietly with what was fetched.
RECURSIVE SlackParse_keep_partial(_, _)
SlackParse_keep_partial(msgs, fetched) ==
    IF msgs = <<>> THEN [raised |-> FALSE, docs |-> fetched, msg |-> <<>>]
    ELSE LET m == Head(msgs)
         IN  IF m.kind = "bad"
             THEN [raised |-> FALSE, docs |-> fetched, msg |-> <<>>]
             ELSE IF m.text = <<>>
                  THEN SlackParse_keep_partial(Tail(msgs), fetched)
                  ELSE SlackParse_keep_partial(Tail(msgs),
                           Append(fetched, Document(m.text, "slack", FALSE)))

RECURSIVE SlackParse(_, _)
SlackParse(msgs, fetched) ==
    IF msgs = <<>> THEN [raised |-> FALSE, docs |-> fetched, msg |-> <<>>]
    ELSE LET m == Head(msgs)
         IN  IF m.kind = "bad"
             THEN [raised |-> TRUE, docs |-> fetched, msg |-> <<"hello">>]
             ELSE IF m.text = <<>>
                  THEN SlackParse(Tail(msgs), fetched)
                  ELSE SlackParse(Tail(msgs),
                           Append(fetched, Document(m.text, "slack", FALSE)))

\* _fetch_sync: returns the fetched documents or raises; api lists the Slack
\* client calls made.
SlackFetchSync(w) ==
    IF w.join = "network_error"
    THEN [raised |-> TRUE, docs |-> <<>>, msg |-> <<"timeout">>,
          api |-> <<"WebClient", "conversations_join">>]
    ELSE \* join succeeded, or raised SlackApiError, which is only logged
         IF w.history # "ok"
         THEN [raised |-> TRUE, docs |-> <<>>, msg |-> <<"invalid_auth">>,
               api |-> <<"WebClient", "conversations_join", "conversations_history">>]
         ELSE SlackParse(w.messages, <<>>) @@
              [api |-> <<"WebClient", "conversations_join", "conversations_history">>]

\* (mutant) the channel id is not checked before the fetch
fetch_slack_messages_async_no_channel_check(w) ==
    IF ~w.token
    THEN [raised |-> FALSE, api |-> <<>>,
          docs |-> <<Document(<<"[SLACK_AUTH_ERROR]", "not-configured">>, "slack", TRUE)>>]
    ELSE LET r == SlackFetchSync(w)
         IN  IF r.raised
             THEN [raised |-> FALSE, api |-> r.api,
                   docs |-> anonymize_documents(
                       <<Document(<<"[SLACK_AUTH_ERROR]">> \o r.msg, "slack", TRUE)>>)]
             ELSE [raised |-> FALSE, api |-> r.api,
                   docs |-> anonymize_documents(r.docs)]

\* fetch_slack_messages_async: raised is TRUE when an exception leaves the
\* connector; api lists the Slack client calls made.
fetch_slack_messages_async(w) ==
    IF ~w.token
    THEN [raised |-> FALSE, api |-> <<>>,
          docs |-> <<Document(<<"[SLACK_AUTH_ERROR]", "not-configured">>, "slack", TRUE)>>]
    ELSE IF ~w.channel
    THEN [raised |-> FALSE, api |-> <<>>,
          docs |-> <<Document(<<"[SLACK_AUTH_ERROR]", "not-configured">>, "slack", TRUE)>>]
    ELSE LET r == SlackFetchSync(w)
         IN  IF r.raised
             THEN [raised |-> FALSE, api |-> r.api,
                   docs |-> anonymize_documents(
                       <<Document(<<"[SLACK_AUTH_ERROR]">> \o r.msg, "slack", TRUE)>>)]
             ELSE [raised |-> FALSE, api |-> r.api,
                   docs |-> anonymize_documents(r.docs)]

\* ------------------------------------------------------------------------
\* Gmail connector (connectors.py 61-166)
\* ------------------------------------------------------------------------
\* The loop of _fetch_sync: one Document per message, a failing get or a
\* malformed payload raises out of the loop.
RECURSIVE GmailParse(_, _)
GmailParse(msgs, fetched) ==
    IF msgs = <<>> THEN [raised |-> FALSE, docs |-> fetched, msg |-> <<>>]
    ELSE LET m == Head(msgs)
         IN  IF m.kind = "bad"
             THEN [raised |-> TRUE, docs |-> fetched, msg |-> <<"timeout">>]
             ELSE GmailParse(Tail(msgs),
                      Append(fetched,
                             Document(<<"Subject:">> \o m.text, "gmail", FALSE)))

GmailFetchSync(w) ==
    IF w.list # "ok"
    THEN [raised |-> TRUE, docs |-> <<>>, msg |-> <<"user@corp.com">>]
    ELSE GmailParse(w.messages, <<>>)

fetch_gmail_messages_async(w) ==
    IF w.creds = "no_credentials_file"
    THEN \* except FileNotFoundError
         [raised |-> FALSE,
          docs |-> anonymize_documents(
              <<Document(<<"[GMAIL_AUTH_ERROR]", "not-configured">>, "gmail", TRUE)>>)]
    ELSE IF w.creds \in {"refresh_fail", "flow_fail"}
    THEN \* except Exception
         [raised |-> FALSE,
          docs |-> anonymize_documents(
              <<Document(<<"[GMAIL_AUTH_ERROR]", "invalid_auth">>, "gmail", TRUE)>>)]
    ELSE LET r == GmailFetchSync(w)
         IN  IF r.raised
             THEN [raised |-> FALSE,
                   docs |-> anonymize_documents(
                       <<Document(<<"[GMAIL_AUTH_ERROR]">> \o r.msg, "gmail", TRUE)>>)]
             ELSE [raised |-> FALSE, docs |-> anonymize_documents(r.docs)]

\* ------------------------------------------------------------------------
\* CRM connector (connectors.py 254-320)
\* ------------------------------------------------------------------------
\* The loop over the records of a JSON or CSV file.
RECURSIVE CrmParse(_, _)
CrmParse(records, docs) ==
    IF records = <<>> THEN [raised |-> FALSE, docs |-> docs, msg |-> <<>>]
    ELSE LET r == Head(records)
         IN  IF r.kind = "bad"
             THEN [raised |-> TRUE, docs |-> docs, msg |-> <<"hello">>]
             ELSE CrmParse(Tail(records),
                      Append(docs, Document(<<"name:">> \o r.text, "crm", FALSE)))

\* The body of the try block.
CrmLoad(w) ==
    IF w.ext \in {".json", ".csv"}
    THEN IF ~w.readable
         THEN [raised |-> TRUE, docs |-> <<>>, msg |-> w.path]
         ELSE CrmParse(w.records, <<>>)
    ELSE [raised |-> TRUE, docs |-> <<>>, msg |-> <<"crm.json">>]

load_crm_documents(w) ==
    IF ~w.exists
    THEN [raised |-> FALSE,
          docs |-> <<Document(<<"[CRM_FILE_ERROR]">> \o w.path, "crm", TRUE)>>]
    ELSE LET r == CrmLoad(w)
         IN  IF r.raised
             THEN [raised |-> FALSE,
                   docs |-> anonymize_documents(
                       <<Document(<<"[CRM_LOAD_ERROR]">> \o r.msg, "crm", TRUE)>>)]
             ELSE [raised |-> FALSE, docs |-> anonymize_documents(r.docs)]

\* ------------------------------------------------------------------------
\* Single connector calls
\* ------------------------------------------------------------------------
NoCall == [fn |-> "none"]

CallSlack ==
    /\ call.fn = "none"
    /\ \E w \in SlackWorlds :
          call' = [fn |-> "slack", world |-> w, ret |-> fetch_slack_messages_async(w)]
    /\ UNCHANGED <<appVars, orchVars, chunkVars, ingVars, embVars, upsVars>>

CallGmail ==
    /\ call.fn = "none"
    /\ \E w \in GmailWorlds :
          call' = [fn |-> "gmail", world |-> w, ret |-> fetch_gmail_messages_async(w)]
    /\ UNCHANGED <<appVars, orchVars, chunkVars, ingVars, embVars, upsVars>>

CallCrm ==
    /\ call.fn = "none"
    /\ \E w \in CrmWorlds :
          call' = [fn |-> "crm", world |-> w, ret |-> load_crm_documents(w)]
    /\ UNCHANGED <<appVars, orchVars, chunkVars, ingVars, embVars, upsVars>>

\* ------------------------------------------------------------------------
\* Chunking (rag.py 155-200): RecursiveCharacterTextSplitter
\* ------------------------------------------------------------------------
\* A file's text is a sequence of runs [c, n]: a word of n non-separator
\* characters (c = "w"), or one separator character: newline, full stop or
\* space (n = 1).  Positions are character offsets from 0, and a piece of
\* the text is the pair <<lo, hi>> of the offsets it spans: text[lo:hi].
chunk_size    == 1000
chunk_overlap == 200

\* separators=["\n\n", "\n", ".", " ", ""] given by process_file_async
AsyncSeparators == <<"nlnl", "nl", "dot", "sp", "chars">>
\* the splitter's default list, used when process_file_sync_fallback gives none
DefaultSeparators == <<"nlnl", "nl", "sp", "chars">>

RECURSIVE TextLen(_)
TextLen(t) == IF t = <<>> THEN 0 ELSE Head(t).n + TextLen(Tail(t))

\* Offset at which run i starts.
Off(t, i) == TextLen(SubSeq(t, 1, i - 1))

\* The run that holds the character at offset o.
RunAt(t, o) == CHOOSE i \in 1..Len(t) : Off(t, i) <= o /\ o < Off(t, i) + t[i].n

IsSpace(t, o) == t[RunAt(t, o)].c \in {"nl", "sp"}

\* str.strip() of text[lo:hi]
RECURSIVE StripLeft(_, _, _)
StripLeft(t, lo, hi) ==
    IF lo < hi /\ IsSpace(t, lo) THEN StripLeft(t, lo + 1, hi) ELSE lo

RECURSIVE StripRight(_, _, _)
StripRight(t, lo, hi) ==
    IF lo < hi /\ IsSpace(t, hi - 1) THEN StripRight(t, lo, hi - 1) ELSE hi

Strip(t, lo, hi) ==
    LET l == StripLeft(t, lo, hi) IN <<l, StripRight(t, l, hi)>>

\* _join_docs with separator "": the pieces are adjacent, so the joined text
\* is the span from the first to the last; <<>> stands for None (blank).
JoinDocs(t, cur) ==
    LET r == Strip(t, cur[1][1], cur[Len(cur)][2])
    IN  IF r[1] = r[2] THEN <<>> ELSE <<r>>

\* Offsets in [lo, hi) where the separator matches, leftmost first and not
\* overlapping (re.split).  i is the run the scan has reached.
RECURSIVE MatchesFrom(_, _, _, _, _)
MatchesFrom(t, sep, lo, hi, i) ==
    IF i > Len(t) \/ Off(t, i) >= hi THEN <<>>
    ELSE IF Off(t, i) < lo THEN MatchesFrom(t, sep, lo, hi, i + 1)
    ELSE IF sep = "nlnl"
         THEN IF /\ t[i].c = "nl" /\ i < Len(t) /\ t[i + 1].c = "nl"
                 /\ Off(t, i + 1) < hi
              THEN <<Off(t, i)>> \o MatchesFrom(t, sep, lo, hi, i + 2)
              ELSE MatchesFrom(t, sep, lo, hi, i + 1)
         ELSE IF t[i].c = sep
              THEN <<Off(t, i)>> \o MatchesFrom(t, sep, lo, hi, i + 1)
              ELSE MatchesFrom(t, sep, lo, hi, i + 1)

Matches(t, sep, lo, hi) == MatchesFrom(t, sep, lo, hi, 1)

\* _split_text_with_regex with keep_separator=True: each separator stays at
\* the start of the piece that follows it; empty pieces are dropped.
SplitWithRegex(t, sep, lo, hi) ==
    LET cuts == <<lo>> \o Matches(t, sep, lo, hi) \o <<hi>>
        all  == [k \in 1..(Len(cuts) - 1) |-> <<cuts[k], cuts[k + 1]>>]
    IN  SelectSeq(all, LAMBDA r : r[1] < r[2])

\* The while loop of _merge_splits that drops pieces from the front of
\* current_doc until the overlap fits.
RECURSIVE PopFront(_, _, _)
PopFront(cur, total, len) ==
    IF total > chunk_overlap \/ (total + len > chunk_size /\ total > 0)
    THEN PopFront(Tail(cur), total - (Head(cur)[2] - Head(cur)[1]), len)
    ELSE [cur |-> cur, total |-> total]

\* _merge_splits(splits, "")
RECURSIVE MergeFrom(_, _, _, _, _)
MergeFrom(t, splits, docs, cur, total) ==
    IF splits = <<>>
    THEN IF cur = <<>> THEN docs ELSE docs \o JoinDocs(t, cur)
    ELSE LET d   == Head(splits)
             len == d[2] - d[1]
         IN  IF total + len > chunk_size /\ cur # <<>>
             THEN LET p == PopFront(cur, total, len)
                  IN  MergeFrom(t, Tail(splits), docs \o JoinDocs(t, cur),
                                Append(p.cur, d), p.total + len)
             ELSE MergeFrom(t, Tail(splits), docs, Append(cur, d), total + len)

MergeSplits(t, splits) == MergeFrom(t, splits, <<>>, <<>>, 0)

\* _merge_splits over the single characters of text[lo:hi] (separator ""):
\* every piece has length 1, so a chunk is cut each time chunk_size
\* characters are held, and the next one starts chunk_overlap before its end.
RECURSIVE CharWindows(_, _, _)
CharWindows(t, lo, hi) ==
    IF hi - lo <= chunk_size
    THEN JoinDocs(t, <<(<<lo, hi>>)>>)
    ELSE JoinDocs(t, <<(<<lo, lo + chunk_size>>)>>)
           \o CharWindows(t, lo + chunk_size - chunk_overlap, hi)

\* The separator _split_text picks: the first of the list that is "" or
\* occurs in the text; the last one when none does.
RECURSIVE PickSeparator(_, _, _, _, _)
PickSeparator(t, lo, hi, seps, i) ==
    IF i > Len(seps)
    THEN [sep |-> seps[Len(seps)], rest |-> <<>>]
    ELSE IF seps[i] = "chars"
         THEN [sep |-> "chars", rest |-> <<>>]
         ELSE IF Matches(t, seps[i], lo, hi) # <<>>
              THEN [sep |-> seps[i], rest |-> SubSeq(seps, i + 1, Len(seps))]
              ELSE PickSeparator(t, lo, hi, seps, i + 1)

RECURSIVE SplitTextRec(_, _, _, _)
RECURSIVE SplitLoop(_, _, _, _, _)

\* The loop of _split_text over the pieces: short ones are collected and
\* merged, a long one is split again with the remaining separators.
SplitLoop(t, splits, rest, good, final) ==
    IF splits = <<>>
    THEN IF good = <<>> THEN final ELSE final \o MergeSplits(t, good)
    ELSE LET s == Head(splits)
         IN  IF s[2] - s[1] < chunk_size
             THEN SplitLoop(t, Tail(splits), rest, Append(good, s), final)
             ELSE LET flushed == IF good = <<>> THEN final
                                 ELSE final \o MergeSplits(t, good)
                      inner   == IF rest = <<>> THEN <<s>>
                                 ELSE SplitTextRec(t, s[1], s[2], rest)
                  IN  SplitLoop(t, Tail(splits), rest, <<>>, flushed \o inner)

\* _split_text(text[lo:hi], seps)
SplitTextRec(t, lo, hi, seps) ==
    LET pick == PickSeparator(t, lo, hi, seps, 1)
    IN  IF pick.sep = "chars"
        THEN CharWindows(t, lo, hi)
        ELSE SplitLoop(t, SplitWithRegex(t, pick.sep, lo, hi), pick.rest, <<>>, <<>>)

\* splitter.split_documents on the one document a text loader yields: the
\* page_content of every chunk, in order.
SplitText(t, seps) ==
    IF t = <<>> THEN <<>> ELSE SplitTextRec(t, 0, TextLen(t), seps)

\* ------------------------------------------------------------------------
\* Loading and chunking one file (rag.py 143-200)
\* ------------------------------------------------------------------------
\* What a path holds, as far as loading goes:
\*   "missing"      no such file
\*   "unsupported"  an extension _get_loader_for_file rejects
\*   "ok"           loads on both paths
\*   "async_fails"  loader.load raises in the executor, loads synchronously
\*   "load_fails"   loader.load raises on both paths
FileKinds == {"missing", "unsupported", "ok", "async_fails", "load_fails"}

\* Chunks of a loaded text, with metadata["source"] = file_path injected.
Chunks(path, pieces) ==
    [i \in 1..Len(pieces) |-> [page_content |-> pieces[i], source |-> path]]

\* f = [path, kind, text]
process_file_async(f) ==
    IF f.kind = "ok"
    THEN [raised |-> FALSE, chunks |-> Chunks(f.path, SplitText(f.text, AsyncSeparators))]
    ELSE [raised |-> TRUE, chunks |-> <<>>]

process_file_sync_fallback(f) ==
    IF f.kind \in {"ok", "async_fails"}
    THEN [raised |-> FALSE, chunks |-> Chunks(f.path, SplitText(f.text, DefaultSeparators))]
    ELSE [raised |-> TRUE, chunks |-> <<>>]

\* ---- both paths on one and the same file ----
MaxWords == 3     \* words in a file text
Word(n) == [c |-> "w", n |-> n]
Sep(c)  == [c |-> c, n |-> 1]
WordLens == {300, 600}

RECURSIVE TextsOf(_)
TextsOf(k) ==
    IF k = 1 THEN {<<Word(n)>> : n \in WordLens}
    ELSE {t \o <<Sep(c), Word(n)>> :
             t \in TextsOf(k - 1), c \in {"nl", "dot", "sp"}, n \in WordLens}

Texts == UNION {TextsOf(k) : k \in 1..MaxWords}

NotRun == [raised |-> FALSE, chunks |-> <<>>, ran |-> FALSE]

RunAsync ==
    /\ ~pf_async.ran
    /\ \E t \in Texts, k \in FileKinds \ {"missing"} :
          LET f == [path |-> "f1", kind |-> k, text |-> t]
          IN  /\ pf_file' = f
              /\ pf_async' = process_file_async(f) @@ [ran |-> TRUE]
    /\ pf_sync' = NotRun
    /\ UNCHANGED <<appVars, call, orchVars, ingVars, embVars, upsVars>>

RunSyncFallback ==
    /\ pf_async.ran
    /\ ~pf_sync.ran
    /\ pf_sync' = process_file_sync_fallback(pf_file) @@ [ran |-> TRUE]
    /\ UNCHANGED <<appVars, call, orchVars, ingVars, embVars, upsVars, pf_file, pf_async>>

PageContents(chunks) == [i \in 1..Len(chunks) |-> chunks[i].page_content]

\* ------------------------------------------------------------------------
\* ingest_documents_async (rag.py 202-231)
\* ------------------------------------------------------------------------
MaxFiles == 3     \* length of the file_paths argument

Paths == {"f1", "f2", "f3"}

\* The text each path holds when it can be loaded.
TextOf(path) ==
    CASE path = "f1" -> <<Word(600), Sep("dot"), Word(600)>>
      [] path = "f2" -> <<Word(600), Sep("sp"), Word(600)>>
      [] OTHER       -> <<Word(300)>>

File(path, kinds) == [path |-> path, kind |-> kinds[path], text |-> TextOf(path)]

\* lines 206-211: one coroutine per path that exists, in argument order.
RECURSIVE BuildTasks(_, _)
BuildTasks(paths, kinds) ==
    IF paths = <<>> THEN <<>>
    ELSE IF kinds[Head(paths)] = "missing"
         THEN BuildTasks(Tail(paths), kinds)
         ELSE <<[path |-> Head(paths), done |-> FALSE, raised |-> FALSE, chunks |-> <<>>]>>
                \o BuildTasks(Tail(paths), kinds)

\* asyncio.gather(*tasks, return_exceptions=True): one result per task, in
\* the order the tasks were passed.
GatherFiles(ts) == [i \in 1..Len(ts) |-> [raised |-> ts[i].raised, chunks |-> ts[i].chunks]]

\* lines 218-229: for path, result in zip(file_paths, results)
RECURSIVE CollectChunks(_, _, _, _, _)
CollectChunks(paths, results, kinds, chunks, fb) ==
    IF paths = <<>> \/ results = <<>>
    THEN [all_chunks |-> chunks, fallback_calls |-> fb]
    ELSE LET path   == Head(paths)
             result == Head(results)
         IN  IF result.raised
             THEN LET r == process_file_sync_fallback(File(path, kinds))
                  IN  CollectChunks(Tail(paths), Tail(results), kinds,
                                    IF r.raised THEN chunks ELSE chunks \o r.chunks,
                                    Append(fb, path))
             ELSE CollectChunks(Tail(paths), Tail(results), kinds,
                                chunks \o result.chunks, fb)

IngestStart ==
    /\ ipc = "idle"
    /\ \E fp \in SeqsUpTo(Paths, MaxFiles), kinds \in [Paths -> FileKinds] :
          /\ file_paths' = fp
          /\ fs' = kinds
          /\ itasks' = BuildTasks(fp, kinds)
          /\ IF BuildTasks(fp, kinds) = <<>>
             THEN ipc' = "done" /\ iraised' = TRUE     \* ValueError("No valid files")
             ELSE ipc' = "gather" /\ iraised' = FALSE
    /\ UNCHANGED <<fallback_calls, all_chunks>>
    /\ UNCHANGED <<appVars, call, orchVars, chunkVars, embVars, upsVars>>

\* One coroutine of the gather finishes; they finish in any order.
IngestTaskDone ==
    /\ ipc = "gather"
    /\ \E i \in 1..Len(itasks) :
          /\ ~itasks[i].done
          /\ LET r == process_file_async(File(itasks[i].path, fs))
             IN  itasks' = [itasks EXCEPT ![i] =
                               [path |-> itasks[i].path, done |-> TRUE,
                                raised |-> r.raised, chunks |-> r.chunks]]
    /\ UNCHANGED <<ipc, file_paths, fs, fallback_calls, all_chunks, iraised>>
    /\ UNCHANGED <<appVars, call, orchVars, chunkVars, embVars, upsVars>>

IngestCollect ==
    /\ ipc = "gather"
    /\ \A i \in 1..Len(itasks) : itasks[i].done
    /\ LET c == CollectChunks(file_paths, GatherFiles(itasks), fs, <<>>, <<>>)
       IN  /\ all_chunks' = c.all_chunks
           /\ fallback_calls' = c.fallback_calls
    /\ ipc' = "done"
    /\ UNCHANGED <<file_paths, fs, itasks, iraised>>
    /\ UNCHANGED <<appVars, call, orchVars, chunkVars, embVars, upsVars>>

\* ------------------------------------------------------------------------
\* ingest_all_sources_async (connectors.py 324-396)
\* ------------------------------------------------------------------------
\* What a coroutine of the gather can end with: the list it returned, or an
\* exception object (exc), which gather(return_exceptions=True) hands back
\* in place of a result.
Raised == [exc |-> TRUE, docs |-> <<>>]
Returned(docs) == [exc |-> FALSE, docs |-> docs]

FileChunk(path, n) == [page_content |-> <<"hello">>, source |-> path, error |-> FALSE]

\* ingest_documents_async(file_paths): chunks of the files, or ValueError.
FileOutcomes ==
    {Raised, Returned(<<>>), Returned(<<FileChunk("f1", 1)>>),
     Returned(<<FileChunk("f1", 1), FileChunk("f2", 1)>>)}

OrchItemLists ==
    {<<>>, <<[kind |-> "ok", text |-> <<"hello">>]>>,
     <<[kind |-> "ok", text |-> <<"deal">>], [kind |-> "ok", text |-> <<"user@corp.com">>]>>}

GmailOutcomes ==
    {Raised} \cup
    {Returned(fetch_gmail_messages_async(w).docs) :
        w \in {x \in GmailWorlds : x.messages \in OrchItemLists}}

SlackOutcomes ==
    {Raised} \cup
    {Returned(fetch_slack_messages_async(w).docs) :
        w \in {x \in SlackWorlds : x.messages \in OrchItemLists}}

CrmOutcomes ==
    {load_crm_documents(w).docs :
        w \in {x \in CrmWorlds : x.records \in OrchItemLists}}

OutcomesOf(src) ==
    CASE src = "files" -> FileOutcomes
      [] src = "gmail" -> GmailOutcomes
      [] OTHER         -> SlackOutcomes

\* lines 350-369: the coroutines in the order they are appended.
Task(src) == [src |-> src, done |-> FALSE, exc |-> FALSE, docs |-> <<>>]

EnqueueTasks(cfg) ==
    (IF cfg.files /\ cfg.rag_import THEN <<Task("files")>> ELSE <<>>)
      \o (IF cfg.gmail THEN <<Task("gmail")>> ELSE <<>>)
      \o (IF cfg.slack THEN <<Task("slack")>> ELSE <<>>)

\* (mutant) gather without return_exceptions: the first exception propagates.
GatherSources_propagate(ts, ord) ==
    [raised  |-> \E i \in 1..Len(ts) : ts[i].exc,
     results |-> [i \in 1..Len(ts) |-> [exc |-> ts[i].exc, docs |-> ts[i].docs]]]

\* (mutant) results taken as the coroutines complete (asyncio.as_completed).
GatherSources_as_completed(ts, ord) ==
    [raised  |-> FALSE,
     results |-> [i \in 1..Len(ord) |-> [exc |-> ts[ord[i]].exc, docs |-> ts[ord[i]].docs]]]

\* asyncio.gather(*tasks, return_exceptions=True), line 373: never raises
\* for a failed coroutine; the results come in the order of the tasks,
\* whatever the order ord in which they completed.
GatherSources(ts, ord) ==
    [raised  |-> FALSE,
     results |-> [i \in 1..Len(ts) |-> [exc |-> ts[i].exc, docs |-> ts[i].docs]]]

\* lines 374-378: an exception is logged, a list is appended.
RECURSIVE ExtendAll(_, _)
ExtendAll(docs, results) ==
    IF results = <<>> THEN docs
    ELSE ExtendAll(IF Head(results).exc THEN docs ELSE docs \o Head(results).docs,
                   Tail(results))

OrchStart ==
    /\ opc = "idle"
    /\ \E cfg \in [files : BOOLEAN, rag_import : BOOLEAN, gmail : BOOLEAN,
                   slack : BOOLEAN, crm : BOOLEAN] :
          /\ ocfg' = cfg
          /\ tasks' = EnqueueTasks(cfg)
          /\ opc' = IF EnqueueTasks(cfg) = <<>> THEN "crm" ELSE "gather"
    /\ UNCHANGED <<order, crm_ret, all_docs, oraised>>
    /\ UNCHANGED <<appVars, call, chunkVars, ingVars, embVars, upsVars>>

\* One coroutine of the gather finishes; they finish in any order.
OrchTaskDone ==
    /\ opc = "gather"
    /\ \E i \in 1..Len(tasks) :
          /\ ~tasks[i].done
          /\ \E o \in OutcomesOf(tasks[i].src) :
                tasks' = [tasks EXCEPT ![i] = [src |-> tasks[i].src, done |-> TRUE,
                                               exc |-> o.exc, docs |-> o.docs]]
          /\ order' = Append(order, i)
    /\ UNCHANGED <<opc, ocfg, crm_ret, all_docs, oraised>>
    /\ UNCHANGED <<appVars, call, chunkVars, ingVars, embVars, upsVars>>

\* The gather returns and its results are aggregated.
OrchCollect ==
    /\ opc = "gather"
    /\ \A i \in 1..Len(tasks) : tasks[i].done
    /\ LET g == GatherSources(tasks, order)
       IN  IF g.raised
           THEN opc' = "done" /\ oraised' = TRUE /\ UNCHANGED all_docs
           ELSE /\ all_docs' = ExtendAll(all_docs, g.results)
                /\ opc' = "crm"
                /\ UNCHANGED oraised
    /\ UNCHANGED <<ocfg, tasks, order, crm_ret>>
    /\ UNCHANGED <<appVars, call, chunkVars, ingVars, embVars, upsVars>>

\* lines 380-396: the CRM file is loaded synchronously, then the call returns.
OrchCrm ==
    /\ opc = "crm"
    /\ IF ocfg.crm
       THEN \E d \in CrmOutcomes :
               /\ crm_ret' = [called |-> TRUE, docs |-> d]
               /\ all_docs' = all_docs \o d
       ELSE UNCHANGED <<crm_ret, all_docs>>
    /\ opc' = "done"
    /\ UNCHANGED <<ocfg, tasks, order, oraised>>
    /\ UNCHANGED <<appVars, call, chunkVars, ingVars, embVars, upsVars>>

\* ------------------------------------------------------------------------
\* Retry policy (utils.py 77-105, tenacity)
\* ------------------------------------------------------------------------
Min2(a, b) == IF a < b THEN a ELSE b
Max2(a, b) == IF a > b THEN a ELSE b

RECURSIVE Pow2(_)
Pow2(n) == IF n = 0 THEN 1 ELSE 2 * Pow2(n - 1)

\* (mutant) one attempt more before giving up
stop_after_attempt_4(attempt_number) == attempt_number >= 4

\* stop=stop_after_attempt(3)
stop_after_attempt(attempt_number) == attempt_number >= 3

\* wait=wait_exponential(multiplier=1, min=2, max=8): seconds slept after
\* the attempt with this number failed.
wait_exponential(attempt_number) == Max2(2, Min2(Pow2(attempt_number - 1), 8))

\* retry=retry_if_exception_type(Exception): every exception kind the
\* wrapped functions raise is an Exception, EnvironmentError included.
retry_if_exception_type(exc) ==
    exc.kind \in {"EnvironmentError", "ProviderError", "PineconeError"}

\* ------------------------------------------------------------------------
\* The embeddings client (rag.py 21, 50-61)
\* ------------------------------------------------------------------------
NThreads == 2         \* threads that may call get_embeddings_client
MaxClientCalls == 2   \* calls one thread makes

\* get_embeddings_client() run without interruption, as the callers on the
\* event loop run it: it raises, or returns the instance the global holds
\* after constructing one if there was none.
ClientMissing == client = 0 /\ ~google_key
ClientGot     == IF client = 0 THEN instances + 1 ELSE client
InstancesGot  == IF client = 0 THEN instances + 1 ELSE instances

IdleThread  == [pc |-> "idle", new |-> 0, ret |-> 0, calls |-> 0]
IdleThreads == [t \in 1..NThreads |-> IdleThread]

\* The same function called from several threads; a thread may be
\* suspended between any two of its steps.
\* line 53: if _embeddings_client is None
ThreadCheck(t) ==
    /\ threads[t].pc \in {"idle", "returned", "raised"}
    /\ threads[t].calls < MaxClientCalls
    /\ threads' = [threads EXCEPT ![t] =
                      [pc |-> IF client = 0 THEN "getenv" ELSE "return",
                       new |-> 0, ret |-> 0, calls |-> @.calls + 1]]
    /\ UNCHANGED <<google_key, client, instances, cache, known, ecall, native_dim, lcall>>
    /\ UNCHANGED <<appVars, call, orchVars, chunkVars, ingVars, upsVars>>

\* lines 54-56: api_key = os.getenv(...); raise EnvironmentError if not set
ThreadGetenv(t) ==
    /\ threads[t].pc = "getenv"
    /\ threads' = [threads EXCEPT ![t].pc = IF google_key THEN "construct" ELSE "raised"]
    /\ UNCHANGED <<google_key, client, instances, cache, known, ecall, native_dim, lcall>>
    /\ UNCHANGED <<appVars, call, orchVars, chunkVars, ingVars, upsVars>>

\* lines 57-60, right-hand side: TruncatedGoogleEmbeddings(...)
ThreadConstruct(t) ==
    /\ threads[t].pc = "construct"
    /\ instances' = instances + 1
    /\ threads' = [threads EXCEPT ![t].pc = "assign", ![t].new = instances + 1]
    /\ UNCHANGED <<google_key, client, cache, known, ecall, native_dim, lcall>>
    /\ UNCHANGED <<appVars, call, orchVars, chunkVars, ingVars, upsVars>>

\* line 57: _embeddings_client = <the new instance>
ThreadAssign(t) ==
    /\ threads[t].pc = "assign"
    /\ client' = threads[t].new
    /\ threads' = [threads EXCEPT ![t].pc = "return"]
    /\ UNCHANGED <<google_key, instances, cache, known, ecall, native_dim, lcall>>
    /\ UNCHANGED <<appVars, call, orchVars, chunkVars, ingVars, upsVars>>

\* line 61: return _embeddings_client
ThreadReturn(t) ==
    /\ threads[t].pc = "return"
    /\ threads' = [threads EXCEPT ![t].pc = "returned", ![t].ret = client]
    /\ UNCHANGED <<google_key, client, instances, cache, known, ecall, native_dim, lcall>>
    /\ UNCHANGED <<appVars, call, orchVars, chunkVars, ingVars, upsVars>>

\* ------------------------------------------------------------------------
\* Embedding of a single string (rag.py 50-109)
\* ------------------------------------------------------------------------
NKeys == 2      \* distinct texts the callers embed
NVers == 2      \* distinct vectors the provider may answer for one text

MAX_BATCH_SIZE == 10
maxsize   == 1000   \* @functools.lru_cache(maxsize=1000)
NativeDim == 3072   \* width of a gemini-embedding-001 vector
EmbedDim  == 768    \* emb[:768]

\* Widths a provider model may answer with: below, at and above EmbedDim.
ProviderDims == {512, EmbedDim, NativeDim}

\* A text is a sequence of characters: 0 is a blank, k > 0 stands for the
\* body of text number k.
RawTexts == {<<>>, <<0>>} \cup UNION {{<<k>>, <<0, k>>, <<k, 0>>} : k \in 1..NKeys}

\* str.strip()
RECURSIVE strip(_)
strip(text) ==
    IF text = <<>> THEN <<>>
    ELSE IF Head(text) = 0 THEN strip(Tail(text))
    ELSE IF text[Len(text)] = 0 THEN strip(SubSeq(text, 1, Len(text) - 1))
    ELSE text

NoVec == [text |-> <<>>, ver |-> 0, dim |-> 0]
NoExc == [kind |-> "none", attempt |-> 0]

\* What the provider answers for one text, and emb[:768] of it.
NativeVec(text, ver) == [text |-> text, ver |-> ver, dim |-> native_dim]

\* (mutant) the provider's vector is passed on as it is
Truncate_none(vec) == vec

Truncate(vec) == [vec EXCEPT !.dim = Min2(vec.dim, EmbedDim)]

\* (mutant) the text is handed to the cache as the caller gave it
CacheKey_raw(raw) == raw

\* line 105, 109: the argument of _embed_single_cached is the stripped text
CacheKey(raw) == strip(raw)

\* ---- functools.lru_cache ----
CacheIndex(c, key) ==
    IF \E i \in 1..Len(c) : c[i].key = key
    THEN CHOOSE i \in 1..Len(c) : c[i].key = key
    ELSE 0

\* a hit makes the entry the most recently used
CacheTouch(c, i) == SubSeq(c, 1, i - 1) \o SubSeq(c, i + 1, Len(c)) \o <<c[i]>>

\* a miss that computed a result stores it; a full cache drops its oldest entry
CacheInsert(c, key, vec) ==
    (IF Len(c) >= maxsize THEN Tail(c) ELSE c) \o <<[key |-> key, vec |-> vec]>>

CacheEvicted(c) == IF Len(c) >= maxsize THEN {strip(Head(c).key)} ELSE {}

\* A cache that earlier calls filled: text 1 first, then maxsize - 1 others.
FullCache ==
    [i \in 1..maxsize |->
        IF i = 1 THEN [key |-> <<1>>, vec |-> Truncate(NativeVec(<<1>>, 1))]
        ELSE [key |-> <<1000 + i>>, vec |-> Truncate(NativeVec(<<1000 + i>>, 1))]]

IdleCall ==
    [pc |-> "idle", raw |-> <<>>, key |-> <<>>, attempt |-> 0, outcomes |-> <<>>,
     waits |-> <<>>, provider_calls |-> 0, hit |-> FALSE, ret |-> NoVec,
     exc |-> NoExc, prior |-> NoVec]

IdleListCall ==
    [pc |-> "idle", type |-> "list", items |-> <<>>, validated |-> <<>>, i |-> 0,
     attempt |-> 0, waits |-> <<>>, batch_calls |-> 0, sent |-> <<>>,
     all_embeddings |-> <<>>, ret |-> <<>>, exc |-> NoExc]

\* embed_text(texts) with a string: validation and cache lookup.
EmbedCall ==
    /\ ecall.pc = "idle"
    /\ lcall.pc = "idle"
    /\ \E raw \in RawTexts :
          LET new == [IdleCall EXCEPT !.raw = raw, !.key = CacheKey(raw),
                          !.prior = IF strip(raw) = <<>> THEN NoVec
                                    ELSE known[strip(raw)[1]]]
              i   == CacheIndex(cache, CacheKey(raw))
          IN  IF strip(raw) = <<>>
              THEN \* ValueError("Input text must not be empty.")
                   /\ ecall' = [new EXCEPT !.pc = "raised",
                                           !.exc = [kind |-> "ValueError", attempt |-> 0]]
                   /\ UNCHANGED cache
              ELSE IF i # 0
              THEN /\ ecall' = [new EXCEPT !.pc = "returned", !.hit = TRUE,
                                           !.ret = cache[i].vec]
                   /\ cache' = CacheTouch(cache, i)
              ELSE /\ ecall' = [new EXCEPT !.pc = "attempt", !.attempt = 1]
                   /\ UNCHANGED cache
    /\ lcall' = IdleListCall
    /\ UNCHANGED <<google_key, client, instances, threads, known, native_dim>>
    /\ UNCHANGED <<appVars, call, orchVars, chunkVars, ingVars, upsVars>>

\* What one run of the body of _embed_batch ends with.
AttemptOutcomes(n) ==
    IF ClientMissing
    THEN \* get_embeddings_client raises before any provider call
         {[ok |-> FALSE, exc |-> [kind |-> "EnvironmentError", attempt |-> n],
           vec |-> NoVec, provider |-> 0]}
    ELSE {[ok |-> FALSE, exc |-> [kind |-> "ProviderError", attempt |-> n],
           vec |-> NoVec, provider |-> 1]}
         \cup {[ok |-> TRUE, exc |-> NoExc, vec |-> NativeVec(ecall.key, v), provider |-> 1] :
                  v \in 1..NVers}

\* One attempt of the retried _embed_batch([text]), and what the retry
\* policy does with its outcome.
EmbedAttempt ==
    /\ ecall.pc = "attempt"
    /\ \E o \in AttemptOutcomes(ecall.attempt) :
          LET done == [ecall EXCEPT !.outcomes = Append(@, o),
                                    !.provider_calls = @ + o.provider]
          IN  /\ client' = (IF ClientMissing THEN client ELSE ClientGot)
              /\ instances' = (IF ClientMissing THEN instances ELSE InstancesGot)
              /\ IF o.ok
                 THEN \* the result is returned, cached and returned by embed_text
                      /\ ecall' = [done EXCEPT !.pc = "returned", !.ret = Truncate(o.vec)]
                      /\ cache' = CacheInsert(cache, ecall.key, Truncate(o.vec))
                      /\ known' = [k \in 1..NKeys |->
                                     IF <<k>> = strip(ecall.key) THEN Truncate(o.vec)
                                     ELSE IF <<k>> \in CacheEvicted(cache) THEN NoVec
                                     ELSE known[k]]
                 ELSE /\ UNCHANGED <<cache, known>>
                      /\ IF retry_if_exception_type(o.exc)
                            /\ ~stop_after_attempt(ecall.attempt)
                         THEN ecall' = [done EXCEPT !.pc = "sleep",
                                           !.waits = Append(@, wait_exponential(ecall.attempt))]
                         ELSE \* reraise=True
                              ecall' = [done EXCEPT !.pc = "raised", !.exc = o.exc]
    /\ UNCHANGED <<google_key, threads, native_dim, lcall>>
    /\ UNCHANGED <<appVars, call, orchVars, chunkVars, ingVars, upsVars>>

\* The back-off wait is over: next attempt.
EmbedSleep ==
    /\ ecall.pc = "sleep"
    /\ ecall' = [ecall EXCEPT !.pc = "attempt", !.attempt = @ + 1]
    /\ UNCHANGED <<google_key, client, instances, threads, cache, known, native_dim, lcall>>
    /\ UNCHANGED <<appVars, call, orchVars, chunkVars, ingVars, upsVars>>

\* ------------------------------------------------------------------------
\* Embedding of a list (rag.py 111-133)
\* ------------------------------------------------------------------------
MaxListLen == 21    \* longest list the callers pass

ListLens ==
    {0, 1, 2, MAX_BATCH_SIZE, MAX_BATCH_SIZE + 1} \cup (2 * MAX_BATCH_SIZE + 1)..MaxListLen

ItemPatterns == {"same", "padded", "blank_first", "blank_last"}

ListItem(j, n, pat) ==
    CASE pat = "same"        -> <<1>>
      [] pat = "padded"      -> <<0, j, 0>>
      [] pat = "blank_first" -> IF j = 1 THEN <<0>> ELSE <<j>>
      [] pat = "blank_last"  -> IF j = n THEN <<>> ELSE <<j>>

\* Arguments of embed_text other than a string: lists, and a value that is
\* neither a string nor a list.
ListArgs ==
    {[type |-> "list", items |-> [j \in 1..n |-> ListItem(j, n, pat)]] :
        n \in ListLens, pat \in ItemPatterns}
    \cup {[type |-> "other", items |-> <<>>]}

\* (mutant) only the items of the first batch are validated
ListInvalid_first_batch(items) ==
    \E j \in 1..Min2(Len(items), MAX_BATCH_SIZE) : strip(items[j]) = <<>>

\* lines 116-120: some item is empty after strip()
ListInvalid(items) == \E j \in 1..Len(items) : strip(items[j]) = <<>>

\* (mutant) the whole rest of the list goes out as one batch
BatchEnd_rest(i, n) == n

\* validated_texts[i:i + MAX_BATCH_SIZE] ends at this item (i counted from 0)
BatchEnd(i, n) == Min2(i + MAX_BATCH_SIZE, n)

\* embed_text(texts) with a list or another value: type check, empty list,
\* validation of every item (lines 111-120, 132-133).
EmbedListCall ==
    /\ ecall.pc = "idle"
    /\ lcall.pc = "idle"
    /\ \E arg \in ListArgs :
          LET new == [IdleListCall EXCEPT !.type = arg.type, !.items = arg.items]
              n   == Len(arg.items)
          IN  IF arg.type # "list"
              THEN lcall' = [new EXCEPT !.pc = "raised",
                                        !.exc = [kind |-> "TypeError", attempt |-> 0]]
              ELSE IF n = 0
              THEN lcall' = [new EXCEPT !.pc = "returned"]
              ELSE IF ListInvalid(arg.items)
              THEN lcall' = [new EXCEPT !.pc = "raised",
                                        !.exc = [kind |-> "ValueError", attempt |-> 0]]
              ELSE lcall' = [new EXCEPT !.pc = "attempt", !.attempt = 1, !.batch_calls = 1,
                                        !.validated = [j \in 1..n |-> strip(arg.items[j])]]
    /\ ecall' = IdleCall
    /\ UNCHANGED <<google_key, client, instances, threads, cache, known, native_dim>>
    /\ UNCHANGED <<appVars, call, orchVars, chunkVars, ingVars, upsVars>>

\* What one run of the body of _embed_batch(batch) ends with.
ListAttemptOutcomes(batch, n) ==
    IF ClientMissing
    THEN {[ok |-> FALSE, exc |-> [kind |-> "EnvironmentError", attempt |-> n],
           vecs |-> <<>>, provider |-> 0]}
    ELSE {[ok |-> FALSE, exc |-> [kind |-> "ProviderError", attempt |-> n],
           vecs |-> <<>>, provider |-> 1]}
         \cup {[ok |-> TRUE, exc |-> NoExc, provider |-> 1,
                vecs |-> [j \in 1..Len(batch) |-> Truncate(NativeVec(batch[j], v))]] :
                  v \in 1..NVers}

\* One attempt of the retried _embed_batch(batch) of the batch loop (lines
\* 122-130): on success the loop goes on to the next batch or returns.
EmbedListAttempt ==
    /\ lcall.pc = "attempt"
    /\ LET n     == Len(lcall.validated)
           lo    == lcall.i + 1
           hi    == BatchEnd(lcall.i, n)
           batch == SubSeq(lcall.validated, lo, hi)
       IN  \E o \in ListAttemptOutcomes(batch, lcall.attempt) :
              LET done == [lcall EXCEPT !.sent = IF o.provider = 1
                                                 THEN Append(@, <<lo, hi>>) ELSE @]
                  all  == lcall.all_embeddings \o o.vecs
              IN  /\ client' = (IF ClientMissing THEN client ELSE ClientGot)
                  /\ instances' = (IF ClientMissing THEN instances ELSE InstancesGot)
                  /\ IF o.ok
                     THEN IF hi < n
                          THEN lcall' = [done EXCEPT !.all_embeddings = all,
                                            !.i = hi, !.attempt = 1,
                                            !.waits = <<>>, !.batch_calls = @ + 1]
                          ELSE lcall' = [done EXCEPT !.all_embeddings = all,
                                            !.pc = "returned", !.ret = all]
                     ELSE IF retry_if_exception_type(o.exc)
                             /\ ~stop_after_attempt(lcall.attempt)
                          THEN lcall' = [done EXCEPT !.pc = "sleep",
                                            !.waits = Append(@, wait_exponential(lcall.attempt))]
                          ELSE lcall' = [done EXCEPT !.pc = "raised", !.exc = o.exc]
    /\ UNCHANGED <<google_key, threads, cache, known, ecall, native_dim>>
    /\ UNCHANGED <<appVars, call, orchVars, chunkVars, ingVars, upsVars>>

EmbedListSleep ==
    /\ lcall.pc = "sleep"
    /\ lcall' = [lcall EXCEPT !.pc = "attempt", !.attempt = @ + 1]
    /\ UNCHANGED <<google_key, client, instances, threads, cache, known, ecall, native_dim>>
    /\ UNCHANGED <<appVars, call, orchVars, chunkVars, ingVars, upsVars>>

\* The caller has the value or the exception of its embed_text call; no call
\* is in progress until the next one.
EmbedDone ==
    /\ \/ ecall.pc \in {"returned", "raised"}
       \/ lcall.pc \in {"returned", "raised"}
    /\ ecall' = IdleCall
    /\ lcall' = IdleListCall
    /\ UNCHANGED <<google_key, client, instances, threads, cache, known, native_dim>>
    /\ UNCHANGED <<appVars, call, orchVars, chunkVars, ingVars, upsVars>>

\* ------------------------------------------------------------------------
\* Vector store: init_pinecone_index and upsert_documents_to_pinecone_async
\* (rag.py 261-355)
\* ------------------------------------------------------------------------
MaxChunks  == 101   \* longest chunk list the callers pass
MaxRerunChunks == 2 \* longest chunk list a later run upserts again
NSeeds     == 2     \* hash seeds an interpreter process may start with
MaxRuns    == 2     \* runs of the program against the same index

PINECONE_DIMENSION    == 768
MAX_UPSERT_BATCH_SIZE == 50

NoIndex   == [exists |-> FALSE, dimension |-> 0, metric |-> "none", ready |-> FALSE]
\* pc.create_index(name, dimension=PINECONE_DIMENSION, metric="cosine", ...)
create_index(ready) ==
    [exists |-> TRUE, dimension |-> PINECONE_DIMENSION, metric |-> "cosine", ready |-> ready]

\* ---- chunk lists handed to the upsert ----
ContentPatterns == {"distinct", "same", "padded", "some_blank", "all_blank"}
MetaPatterns    == {"file", "no_timestamp", "own_text"}

ChunkContent(j, pat) ==
    CASE pat = "distinct"   -> <<j>>
      [] pat = "same"       -> <<1>>
      [] pat = "padded"     -> <<0, j>>
      [] pat = "some_blank" -> IF j % 2 = 1 THEN <<0>> ELSE <<j>>
      [] pat = "all_blank"  -> <<0>>

\* metadata values are strings too; 800 is the file's timestamp, 900 its path
ChunkMeta(mpat) ==
    CASE mpat = "file"         -> [k \in {"source", "timestamp"} |->
                                      IF k = "source" THEN <<900>> ELSE <<800>>]
      [] mpat = "no_timestamp" -> [k \in {"source"} |-> <<900>>]
      [] mpat = "own_text"     -> [k \in {"source", "timestamp", "text"} |->
                                      IF k = "source" THEN <<900>>
                                      ELSE IF k = "timestamp" THEN <<800>> ELSE <<700>>]

ChunkLens ==
    {0, 1, 2, MAX_UPSERT_BATCH_SIZE, MAX_UPSERT_BATCH_SIZE + 1}
    \cup (2 * MAX_UPSERT_BATCH_SIZE)..MaxChunks

ChunkList(n, pat, mpat) ==
    [j \in 1..n |-> [page_content |-> ChunkContent(j, pat), metadata |-> ChunkMeta(mpat)]]

ChunkLists ==
    {ChunkList(n, pat, "file") : n \in ChunkLens, pat \in ContentPatterns}
    \cup {ChunkList(n, "distinct", mpat) : n \in ChunkLens, mpat \in MetaPatterns}

\* ---- payload of one batch (lines 338-347) ----
\* doc.metadata.get("timestamp", "")
MetaGet(meta, k, default) == IF k \in DOMAIN meta THEN meta[k] ELSE default

\* hash() of a string depends on the process's seed
Hash(str) == [seed |-> hash_seed, str |-> str]

doc_id(doc) == Hash(doc.page_content \o MetaGet(doc.metadata, "timestamp", <<>>))

\* {"text": doc.page_content, **doc.metadata}: later keys win
PayloadMetadata(doc) ==
    [k \in {"text"} \cup DOMAIN doc.metadata |->
        IF k \in DOMAIN doc.metadata THEN doc.metadata[k] ELSE doc.page_content]

UpsertPayload(batch, vectors) ==
    [j \in 1..Len(batch) |->
        [id |-> doc_id(batch[j]), values |-> vectors[j],
         metadata |-> PayloadMetadata(batch[j])]]

\* (mutant) a write replaces what the index held
IndexUpsert_replace(st, payload) == {payload[j] : j \in 1..Len(payload)}

\* index.upsert(payload): an entry replaces the one with its id; within one
\* payload the last entry with an id wins.
IndexUpsert(st, payload) ==
    LET ids  == {payload[j].id : j \in 1..Len(payload)}
        last(id) == CHOOSE j \in 1..Len(payload) :
                       /\ payload[j].id = id
                       /\ \A l \in (j + 1)..Len(payload) : payload[l].id # id
    IN  {e \in st : e.id \notin ids} \cup {payload[last(id)] : id \in ids}

\* (mutant) batches of 60
BatchAt_60(valid, i) == SubSeq(valid, i + 1, Min2(i + 60, Len(valid)))

\* valid_chunks[i:i + MAX_UPSERT_BATCH_SIZE], i counted from 0
BatchAt(valid, i) == SubSeq(valid, i + 1, Min2(i + MAX_UPSERT_BATCH_SIZE, Len(valid)))

\* log: the calls made so far, in order: "init" when init_pinecone_index
\* returned, "embed" and "write" with the range of valid chunks handed to
\* embed_text and to index.upsert; payload: the last payload handed to
\* index.upsert; run: which run of the program this is.
IdleUpsert ==
    [pc |-> "idle", chunks |-> <<>>, valid |-> <<>>, i |-> 0, attempt |-> 0,
     waits |-> <<>>, vectors |-> <<>>, embed_calls |-> 0, write_attempts |-> 0,
     total_upserted |-> 0, exc |-> NoExc, log |-> <<>>, payload |-> <<>>, run |-> 1]

Event(op, lo, hi) == [op |-> op, lo |-> lo, hi |-> hi]

\* (mutant) no chunk is dropped
ValidChunks_all(chunks) == chunks

\* line 310: [c for c in chunks if c.page_content.strip()]
ValidChunks(chunks) == SelectSeq(chunks, LAMBDA c : strip(c.page_content) # <<>>)

\* Lines 306-312 for the given argument, in run number run.
UpsertEntry(chunks, run) ==
    LET valid == ValidChunks(chunks)
        new   == [IdleUpsert EXCEPT !.chunks = chunks, !.valid = valid, !.run = run]
    IN  IF chunks = <<>>
        THEN [new EXCEPT !.pc = "returned"]
        ELSE IF valid = <<>>
        THEN [new EXCEPT !.pc = "raised", !.exc = [kind |-> "ValueError", attempt |-> 0]]
        ELSE [new EXCEPT !.pc = "init", !.attempt = 1]

\* Entry of upsert_documents_to_pinecone_async: validation (lines 306-312).
UpsertStart ==
    /\ ucall.pc = "idle"
    /\ \E chunks \in ChunkLists : ucall' = UpsertEntry(chunks, 1)
    /\ UNCHANGED <<pinecone_key, hash_seed, index, store>>
    /\ UNCHANGED <<appVars, call, orchVars, chunkVars, ingVars, embVars>>

\* A later run of the program upserts the same chunks again: a new
\* interpreter process (its own hash seed, no client yet, empty cache)
\* against the same index.
UpsertRerun ==
    /\ ucall.pc = "returned"
    /\ ucall.run < MaxRuns
    /\ Len(ucall.chunks) <= MaxRerunChunks
    /\ hash_seed' \in 1..NSeeds
    /\ ucall' = UpsertEntry(ucall.chunks, ucall.run + 1)
    /\ client' = 0
    /\ instances' = 0
    /\ threads' = IdleThreads
    /\ cache' = <<>>
    /\ known' = [k \in 1..NKeys |-> NoVec]
    /\ ecall' = IdleCall
    /\ lcall' = IdleListCall
    /\ UNCHANGED <<google_key, native_dim>>
    /\ UNCHANGED <<pinecone_key, index, store>>
    /\ UNCHANGED <<appVars, call, orchVars, chunkVars, ingVars>>

\* What one run of the body of init_pinecone_index ends with.
InitIndexOutcomes(n) ==
    LET fail(kind, ix) == [ok |-> FALSE, exc |-> [kind |-> kind, attempt |-> n], index |-> ix]
    IN  IF ~pinecone_key
        THEN {fail("EnvironmentError", index)}
        ELSE {fail("PineconeError", index)}                  \* list_indexes fails
             \cup (IF index.exists
                   THEN {[ok |-> TRUE, exc |-> NoExc, index |-> index]}
                   ELSE {fail("PineconeError", index),        \* create_index fails
                         fail("PineconeError", create_index(FALSE)),  \* describe_index fails
                         [ok |-> TRUE, exc |-> NoExc, index |-> create_index(TRUE)]})

\* One attempt of the retried init_pinecone_index; when it returns, the
\* caller goes on to get_embeddings_client() and the first batch.
UpsertInitAttempt ==
    /\ ucall.pc = "init"
    /\ \E o \in InitIndexOutcomes(ucall.attempt) :
          /\ index' = o.index
          /\ IF o.ok
             THEN IF ClientMissing
                  THEN /\ ucall' = [ucall EXCEPT !.pc = "raised",
                                       !.exc = [kind |-> "EnvironmentError", attempt |-> 0]]
                       /\ UNCHANGED <<client, instances>>
                  ELSE /\ ucall' = [ucall EXCEPT !.pc = "embed",
                                       !.log = Append(@, Event("init", 0, 0))]
                       /\ client' = ClientGot
                       /\ instances' = InstancesGot
             ELSE /\ UNCHANGED <<client, instances>>
                  /\ IF retry_if_exception_type(o.exc) /\ ~stop_after_attempt(ucall.attempt)
                     THEN ucall' = [ucall EXCEPT !.pc = "init_sleep",
                                       !.waits = Append(@, wait_exponential(ucall.attempt))]
                     ELSE ucall' = [ucall EXCEPT !.pc = "raised", !.exc = o.exc]
    /\ UNCHANGED <<pinecone_key, hash_seed, store>>
    /\ UNCHANGED <<google_key, threads, cache, known, ecall, native_dim, lcall>>
    /\ UNCHANGED <<appVars, call, orchVars, chunkVars, ingVars>>

UpsertInitSleep ==
    /\ ucall.pc = "init_sleep"
    /\ ucall' = [ucall EXCEPT !.pc = "init", !.attempt = @ + 1]
    /\ UNCHANGED <<pinecone_key, hash_seed, index, store>>
    /\ UNCHANGED <<appVars, call, orchVars, chunkVars, ingVars, embVars>>

\* embed_text(texts) on a list (lines 111-130): every _embed_batch of up to
\* MAX_BATCH_SIZE texts succeeds within its retries, or one of them
\* exhausts them and its last exception propagates.
EmbedListOutcomes(texts) ==
    {[ok |-> TRUE, exc |-> NoExc,
      vectors |-> [j \in 1..Len(texts) |-> Truncate(NativeVec(strip(texts[j]), v))]] :
        v \in 1..NVers}
    \cup {[ok |-> FALSE, exc |-> [kind |-> "ProviderError", attempt |-> 3], vectors |-> <<>>]}

\* Step 1 of a batch: vectors = embed_text(texts).
UpsertEmbed ==
    /\ ucall.pc = "embed"
    /\ LET batch == BatchAt(ucall.valid, ucall.i)
           texts == [j \in 1..Len(batch) |-> batch[j].page_content]
           ev    == Event("embed", ucall.i + 1, ucall.i + Len(batch))
       IN  \E o \in EmbedListOutcomes(texts) :
              IF o.ok
              THEN ucall' = [ucall EXCEPT !.pc = "write", !.vectors = o.vectors,
                                          !.embed_calls = @ + 1, !.write_attempts = 0,
                                          !.log = Append(@, ev)]
              ELSE ucall' = [ucall EXCEPT !.pc = "raised", !.exc = o.exc,
                                          !.embed_calls = @ + 1, !.log = Append(@, ev)]
    /\ UNCHANGED <<pinecone_key, hash_seed, index, store>>
    /\ UNCHANGED <<appVars, call, orchVars, chunkVars, ingVars, embVars>>

\* Steps 2 and 3 of a batch: build the payload and
\* await loop.run_in_executor(None, index.upsert, upsert_payload).
UpsertWrite ==
    /\ ucall.pc = "write"
    /\ LET batch   == BatchAt(ucall.valid, ucall.i)
           payload == UpsertPayload(batch, ucall.vectors)
           next_i  == ucall.i + MAX_UPSERT_BATCH_SIZE
           ev      == Event("write", ucall.i + 1, ucall.i + Len(batch))
       IN  \/ /\ store' = IndexUpsert(store, payload)
              /\ ucall' = [ucall EXCEPT
                              !.log = Append(@, ev), !.payload = payload,
                              !.pc = IF next_i < Len(ucall.valid) THEN "embed" ELSE "returned",
                              !.i = next_i, !.vectors = <<>>,
                              !.write_attempts = @ + 1,
                              !.total_upserted = @ + Len(batch)]
           \/ \* the call fails: nothing catches the exception
              /\ UNCHANGED store
              /\ ucall' = [ucall EXCEPT !.pc = "raised", !.write_attempts = @ + 1,
                              !.log = Append(@, ev), !.payload = payload,
                              !.exc = [kind |-> "UpsertError", attempt |-> ucall.write_attempts + 1]]
    /\ UNCHANGED <<pinecone_key, hash_seed, index>>
    /\ UNCHANGED <<appVars, call, orchVars, chunkVars, ingVars, embVars>>

\* ------------------------------------------------------------------------
\* anonymize_text character by character (connectors.py 30-51)
\* ------------------------------------------------------------------------
\* Here a text is a sequence of one-character strings.  A placeholder
\* written by an earlier pass is one element, "[ANONYMIZED_...]": it begins
\* with "[" and ends with "]", which no pattern matches and which are not
\* word characters, and it holds no digit, "@" or "=".
Digits == {"0", "1", "2", "3", "4", "5", "6", "7", "8", "9"}

Letters ==
    {"a", "b", "c", "d", "e", "f", "g", "h", "i", "j", "k", "l", "m",
     "n", "o", "p", "q", "r", "s", "t", "u", "v", "w", "x", "y", "z",
     "A", "B", "C", "D", "E", "F", "G", "H", "I", "J", "K", "L", "M",
     "N", "O", "P", "Q", "R", "S", "T", "U", "V", "W", "X", "Y", "Z"}

\* [a-zA-Z0-9._%+\-]
EmailLocal == Letters \cup Digits \cup {".", "_", "%", "+", "-"}
\* [a-zA-Z0-9.\-]
EmailDomain == Letters \cup Digits \cup {".", "-"}
\* [\d\s\-().]
PhoneBody == Digits \cup {" ", "-", "(", ")", "."}

SetMin(S) == CHOOSE x \in S : \A y \in S : x <= y
SetMax(S) == CHOOSE x \in S : \A y \in S : x >= y

\* The character at position i, "" outside the text.
At(t, i) == IF i \in 1..Len(t) THEN t[i] ELSE ""

\* \w, and \b between positions i - 1 and i
IsWord(t, i) == At(t, i) \in Letters \cup Digits \cup {"_"}
WordBoundary(t, i) == IsWord(t, i - 1) # IsWord(t, i)

\* Last position of the longest run of characters of class C that starts
\* at i (i - 1 when t[i] is not in C).
RunEnd(t, i, C) == SetMin({j \in i..(Len(t) + 1) : At(t, j) \notin C}) - 1

\* re.IGNORECASE on the letters of "email", "mail", "to"
Lower(c) ==
    CASE c = "E" -> "e" [] c = "M" -> "m" [] c = "A" -> "a" [] c = "I" -> "i"
      [] c = "L" -> "l" [] c = "T" -> "t" [] c = "O" -> "o" [] OTHER -> c

\* t has the literal lit at position i (compared in lower case when fold)
HasLiteral(t, i, lit, fold) ==
    /\ i + Len(lit) - 1 <= Len(t)
    /\ \A k \in 1..Len(lit) :
          (IF fold THEN Lower(t[i + k - 1]) ELSE t[i + k - 1]) = lit[k]

\* Each X_end(t, i) is the last position of the match of pattern X that
\* starts at position i, as the backtracking matcher finds it, or 0.

\* [a-zA-Z0-9.\-]+\.[a-zA-Z]{2,} : the greedy run gives back characters
\* until a "." followed by two letters is found; the letters are greedy.
HOST_end(t, i) ==
    LET m  == RunEnd(t, i, EmailDomain)
        qs == {q \in (i + 1)..m :
                  t[q] = "." /\ At(t, q + 1) \in Letters /\ At(t, q + 2) \in Letters}
    IN  IF qs = {} THEN 0 ELSE RunEnd(t, SetMax(qs) + 1, Letters)

\* _EMAIL_PATTERN
EMAIL_end(t, i) ==
    LET j == RunEnd(t, i, EmailLocal) + 1
    IN  IF j > i /\ At(t, j) = "@" THEN HOST_end(t, j + 1) ELSE 0

\* _MAILTO_PATTERN
MAILTO_end(t, i) ==
    IF HasLiteral(t, i, <<"m", "a", "i", "l", "t", "o", ":">>, FALSE)
    THEN EMAIL_end(t, i + 7)
    ELSE 0

\* _URL_EMAIL_PATTERN: (?:email|mail|to)= then the local part, "%40" or
\* "@", and the domain.  The local part is greedy and "%", "4", "0" belong
\* to its class: the separator is the last one after which a domain
\* matches.
URL_EMAIL_end(t, i) ==
    LET p  == IF HasLiteral(t, i, <<"e", "m", "a", "i", "l", "=">>, TRUE) THEN 6
              ELSE IF HasLiteral(t, i, <<"m", "a", "i", "l", "=">>, TRUE) THEN 5
              ELSE IF HasLiteral(t, i, <<"t", "o", "=">>, TRUE) THEN 3
              ELSE 0
        s0 == i + p
        j  == RunEnd(t, s0, EmailLocal) + 1
        after(x) == IF x = j THEN x + 1 ELSE x + 3
        seps == (IF j > s0 /\ At(t, j) = "@" THEN {j} ELSE {})
                \cup {x \in (s0 + 1)..(j - 3) :
                         t[x] = "%" /\ t[x + 1] = "4" /\ t[x + 2] = "0"}
        good == {x \in seps : HOST_end(t, after(x)) > 0}
    IN  IF p = 0 \/ good = {} THEN 0 ELSE HOST_end(t, after(SetMax(good)))

\* _SSN_PATTERN: \b\d{3}-\d{2}-\d{4}\b
SSN_end(t, i) ==
    IF /\ i + 10 <= Len(t)
       /\ WordBoundary(t, i)
       /\ \A k \in {0, 1, 2, 4, 5, 7, 8, 9, 10} : t[i + k] \in Digits
       /\ t[i + 3] = "-"
       /\ t[i + 6] = "-"
       /\ WordBoundary(t, i + 11)
    THEN i + 10
    ELSE 0

\* _PHONE_PATTERN: \b(\+?\d[\d\s\-().]{7,14}\d)\b
PHONE_end(t, i) ==
    LET d0 == IF At(t, i) = "+" THEN i + 1 ELSE i
        ks == {k \in 7..14 :
                  /\ \A x \in (d0 + 1)..(d0 + k) : At(t, x) \in PhoneBody
                  /\ At(t, d0 + k + 1) \in Digits
                  /\ WordBoundary(t, d0 + k + 2)}
    IN  IF WordBoundary(t, i) /\ At(t, d0) \in Digits /\ ks # {}
        THEN d0 + SetMax(ks) + 1
        ELSE 0

MatchEnd(pat, t, i) ==
    CASE pat = "URL_EMAIL" -> URL_EMAIL_end(t, i)
      [] pat = "MAILTO"    -> MAILTO_end(t, i)
      [] pat = "EMAIL"     -> EMAIL_end(t, i)
      [] pat = "SSN"       -> SSN_end(t, i)
      [] pat = "PHONE"     -> PHONE_end(t, i)

\* pattern.sub(repl, t): the leftmost match is replaced, the scan goes on
\* behind it.
RECURSIVE re_sub(_, _, _, _)
re_sub(pat, repl, t, i) ==
    IF i > Len(t) THEN <<>>
    ELSE LET e == MatchEnd(pat, t, i)
         IN  IF e > 0
             THEN <<repl>> \o re_sub(pat, repl, t, e + 1)
             ELSE <<t[i]>> \o re_sub(pat, repl, t, i + 1)

\* anonymize_text on characters: the five passes in the order of the code.
anonymize_chars(text) ==
    LET t1 == re_sub("URL_EMAIL", "[ANONYMIZED_EMAIL_PARAM]", text, 1)
        t2 == re_sub("MAILTO", "[ANONYMIZED_MAILTO]", t1, 1)
        t3 == re_sub("EMAIL", "[ANONYMIZED_EMAIL]", t2, 1)
        t4 == re_sub("SSN", "[ANONYMIZED_SSN]", t3, 1)
    IN  re_sub("PHONE", "[ANONYMIZED_PHONE]", t4, 1)

\* ---- texts: a piece of PII with what stands before and behind it ----
AnonCores ==
    {[class |-> "ssn",   chars |-> <<"1", "2", "3", "-", "4", "5", "-", "6", "7", "8", "9">>],
     [class |-> "phone", chars |-> <<"5", "5", "5", "-", "1", "2", "3", "-", "4", "5", "6", "7">>],
     [class |-> "phone", chars |-> <<"5", "5", "5", "-", "1", "2", "3", "4">>],
     [class |-> "phone", chars |-> <<"5", "5", "5", "1", "2", "3", "4">>],
     [class |-> "phone", chars |-> <<"2", "0", "2", ")", " ", "5", "5", "5", "-", "0", "1", "4", "3">>],
     [class |-> "phone", chars |-> <<"1", "2", "3", " ", "4", "5", "6", " ", "7", "8", "9", " ",
                                     "0", "1", "2", " ", "3", "4", "5">>],
     [class |-> "email", chars |-> <<"j", ".", "d", "@", "c", "o", ".", "u", "k">>],
     [class |-> "url_email", chars |-> <<"u", "%", "4", "0", "c", ".", "i", "o">>],
     [class |-> "email", chars |-> <<"7", "-", "9", "@", "c", ".", "i", "o">>]}

AnonPres ==
    {<<>>, <<" ">>, <<"x">>, <<"_">>, <<"1">>, <<"+">>, <<"(">>, <<":">>,
     <<"S", "S", "N", ":", " ">>,
     <<"m", "a", "i", "l", "t", "o", ":">>,
     <<"t", "o", "=">>,
     <<"E", "m", "a", "i", "l", "=">>}

AnonPosts == {<<>>, <<" ">>, <<".">>, <<"0">>, <<"x">>, <<"-", "0">>, <<".", "x">>}

IdleAnon == [pc |-> "idle"]

AnonymizeCall ==
    /\ anon.pc = "idle"
    /\ \E pre \in AnonPres, core \in AnonCores, post \in AnonPosts :
          anon' = [pc |-> "done", pre |-> pre, core |-> core, post |-> post,
                   text |-> pre \o core.chars \o post,
                   out |-> anonymize_chars(pre \o core.chars \o post)]
    /\ UNCHANGED <<hfile, hist, builds, uuids, rq>>
    /\ UNCHANGED <<call, orchVars, chunkVars, ingVars, embVars, upsVars>>

\* ------------------------------------------------------------------------
\* JSONFileChatMessageHistory (agent.py 34-64)
\* ------------------------------------------------------------------------
MaxMessages == 3    \* add_message calls made on one instance

\* BaseMessage: its type and its content
Messages == [type : {"human", "ai"}, content : {"hello", "deal"}]

\* (mutant) the type is not written
message_to_dict_untyped(m) ==
    [type |-> "human", data |-> [content |-> m.content, type |-> "human"]]

\* langchain_core.messages.message_to_dict
message_to_dict(m) == [type |-> m.type, data |-> [content |-> m.content, type |-> m.type]]

\* langchain_core.messages.messages_from_dict: the class is chosen by "type"
messages_from_dict(data) ==
    [i \in 1..Len(data) |-> [type |-> data[i].type, content |-> data[i].data.content]]

\* The file at file_path: absent, a JSON list of message dicts, or
\* something json.load or messages_from_dict raises on (a truncated or
\* empty file included).
NoFile == [kind |-> "absent", data |-> <<>>]
JsonFile(data) == [kind |-> "json", data |-> data]
CorruptFile == [kind |-> "corrupt", data |-> <<>>]

\* load(): messages stay as they are when the file is absent or the read
\* raises (the exception is logged).
load(file, messages) ==
    IF file.kind = "json" THEN messages_from_dict(file.data) ELSE messages

\* __init__: self.messages = []; self.load()
NewHistory(file) == load(file, <<>>)

\* save(): the list is written as a whole; open() may raise (the file
\* stays as it was) and json.dump may raise after open() truncated the
\* file; both exceptions are logged and swallowed.
save(file, messages) ==
    {[ok |-> TRUE,  file |-> JsonFile([i \in 1..Len(messages) |-> message_to_dict(messages[i])])],
     [ok |-> FALSE, file |-> file],
     [ok |-> FALSE, file |-> CorruptFile]}

IdleHistory == [pc |-> "none", messages |-> <<>>, last |-> "none", saved |-> TRUE, adds |-> 0]

\* What the path may hold before the first instance is constructed.
InitialFiles ==
    {NoFile, CorruptFile,
     JsonFile(<<message_to_dict([type |-> "human", content |-> "hello"])>>)}

HistoryNew ==
    /\ hist.pc = "none"
    /\ hist' = [hist EXCEPT !.pc = "ready", !.messages = NewHistory(hfile), !.last = "init"]
    /\ UNCHANGED <<anon, hfile, builds, uuids, rq>>
    /\ UNCHANGED <<call, orchVars, chunkVars, ingVars, embVars, upsVars>>

\* add_message: append, then save
HistoryAdd ==
    /\ hist.pc = "ready"
    /\ hist.adds < MaxMessages
    /\ \E m \in Messages :
          \E o \in save(hfile, Append(hist.messages, m)) :
             /\ hist' = [hist EXCEPT !.messages = Append(@, m), !.last = "add",
                                     !.saved = o.ok, !.adds = @ + 1]
             /\ hfile' = o.file
    /\ UNCHANGED <<anon, builds, uuids, rq>>
    /\ UNCHANGED <<call, orchVars, chunkVars, ingVars, embVars, upsVars>>

\* clear: the list is emptied, then the file removed when it exists;
\* os.remove may raise, nothing catches it.
HistoryClear ==
    /\ hist.pc = "ready"
    /\ \/ /\ hfile' = NoFile
          /\ hist' = [hist EXCEPT !.messages = <<>>, !.last = "clear"]
       \/ /\ hfile.kind # "absent"
          /\ hfile' = hfile
          /\ hist' = [hist EXCEPT !.messages = <<>>, !.last = "clear_raised"]
    /\ UNCHANGED <<anon, builds, uuids, rq>>
    /\ UNCHANGED <<call, orchVars, chunkVars, ingVars, embVars, upsVars>>

\* ------------------------------------------------------------------------
\* Query validation, build_advanced_retriever and retrieval
\* (rag.py 367-442, agent.py 152-167, main.py 93-127)
\* ------------------------------------------------------------------------
MaxBuilds   == 2    \* build_advanced_retriever calls in one process
MaxDocs     == 2    \* docs handed to one build
MaxQueryLen == 7    \* characters of the longest query besides its padding

\* ---- queries ----
\* A query argument: a string (characters as in the texts embedded: 0 is
\* a blank) or a value of another type.
QueryLens == {0} \cup 4..MaxQueryLen
QueryPads == {<<>>, <<0>>}

QueryStrings ==
    {[type |-> "str", chars |-> l \o [j \in 1..n |-> 1] \o r] :
        n \in QueryLens, l \in QueryPads, r \in QueryPads}

QueryArgs == QueryStrings \cup {[type |-> "other", chars |-> <<>>]}

validate_rag_query(query) ==
    IF query.type # "str"
    THEN [ok |-> FALSE, exc |-> "TypeError", query |-> <<>>]
    ELSE LET stripped == strip(query.chars)
         IN  IF Len(stripped) <= 5
             THEN [ok |-> FALSE, exc |-> "ValueError", query |-> <<>>]
             ELSE [ok |-> TRUE, exc |-> "none", query |-> stripped]

\* ---- build_advanced_retriever ----
\* A doc handed to the build is one of the chunks that were ingested.  Its
\* page_content is a sequence of paragraphs separated by blank lines, each
\* of 201 to 400 characters: doc j has j paragraphs, numbered 10 * j + k.
RetrieverDoc(j) ==
    [page_content |-> [k \in 1..j |-> 10 * j + k], metadata |-> ChunkMeta("file")]

DocLists == {[j \in 1..n |-> RetrieverDoc(j)] : n \in 0..MaxDocs}

\* RecursiveCharacterTextSplitter(chunk_size=400).split_documents: the text
\* is cut at the blank lines, and no two paragraphs of more than 200
\* characters fit into one chunk of 400.
ChildSplit(doc) == [k \in 1..Len(doc.page_content) |-> <<doc.page_content[k]>>]

\* uuid.uuid4(): the n-th id generated in this process
Uuid(n) == [uuid |-> n]

\* (mutant) the children are written under the id the upsert gives a chunk
ChildId_content_hash(doc, n) == Hash(doc.page_content \o MetaGet(doc.metadata, "timestamp", <<>>))

\* PineconeVectorStore.add_texts without ids: str(uuid.uuid4()) per text
ChildId(doc, n) == Uuid(n)

\* ParentDocumentRetriever.add_documents(docs, ids=None): every doc gets a
\* uuid4 as parent id, its children carry it in metadata["doc_id"] and are
\* written to the vector store; the parents go to the docstore.  first is
\* the number of uuids generated before.
\* the number of uuids generated before, made the number of child ids
\* generated for docs[1..j-1].
RECURSIVE ChildEntries(_, _, _, _)
ChildEntries(docs, j, first, made) ==
    IF j > Len(docs) THEN <<>>
    ELSE LET doc  == docs[j]
             kids == ChildSplit(doc)
         IN  [k \in 1..Len(kids) |->
                 [id |-> ChildId(doc, first + Len(docs) + made + k),
                  values |-> Truncate(NativeVec(kids[k], 1)),
                  metadata |-> [m \in {"text", "doc_id"} \cup DOMAIN doc.metadata |->
                                   IF m = "text" THEN kids[k]
                                   ELSE IF m = "doc_id" THEN <<first + j>>
                                   ELSE doc.metadata[m]]]]
             \o ChildEntries(docs, j + 1, first, made + Len(kids))

ParentIds(docs, first) == {Uuid(first + j) : j \in 1..Len(docs)}

\* What one call of build_advanced_retriever ends with: raised before
\* anything was written (no embeddings client, or the vector store cannot
\* be constructed), raised while the children were being written (none
\* or all but the last of them are in the store), raised by BM25Retriever.from_documents
\* on an empty corpus, or returned.
BuildOutcomes(docs, first) ==
    LET entries == ChildEntries(docs, 1, first, 0)
        n       == Len(entries)
        made(k) == first + Len(docs) + k
        rec(ok, exc, k, parents) ==
            [docs |-> docs, ok |-> ok, exc |-> exc,
             written |-> SubSeq(entries, 1, k), parents |-> parents,
             uuids |-> IF exc \in {"EnvironmentError", "VectorStoreError"}
                       THEN first ELSE made(n)]
    IN  IF ClientMissing
        THEN {rec(FALSE, "EnvironmentError", 0, {})}
        ELSE IF ~pinecone_key \/ ~index.exists
        THEN {rec(FALSE, "VectorStoreError", 0, {})}
        ELSE {rec(FALSE, "WriteError", k, {}) : k \in {0, n - 1} \cap 0..(n - 1)}
             \cup {rec(TRUE, "none", n, ParentIds(docs, first))}
             \cup (IF docs = <<>>
                   THEN {rec(FALSE, "ZeroDivisionError", 0, {})}
                   ELSE {})

BuildRetriever ==
    /\ Len(builds) < MaxBuilds
    /\ rq.pc \in {"idle", "accepted"}
    /\ \E docs \in DocLists :
          \E o \in BuildOutcomes(docs, uuids) :
             /\ builds' = Append(builds, o)
             /\ store' = store \cup Range(o.written)
             /\ uuids' = o.uuids
             /\ IF ClientMissing
                THEN UNCHANGED <<client, instances>>
                ELSE client' = ClientGot /\ instances' = InstancesGot
    /\ UNCHANGED <<anon, hfile, hist, rq>>
    /\ UNCHANGED <<google_key, threads, cache, known, ecall, native_dim, lcall>>
    /\ UNCHANGED <<pinecone_key, hash_seed, index, ucall>>
    /\ UNCHANGED <<call, orchVars, chunkVars, ingVars>>

\* ---- retrieval ----
HasRetriever == builds # <<>> /\ builds[Len(builds)].ok

\* Docs of the retriever in use, by their position in its docs argument.
RetrieverDocs == 1..Len(builds[Len(builds)].docs)

IdleQuery ==
    [pc |-> "idle", path |-> "none", raw |-> [type |-> "str", chars |-> <<>>],
     query |-> <<>>, stages |-> <<>>, bm25 |-> {}, prior |-> {}, results |-> {},
     failed |-> "none", exc |-> "none", ret |-> "none"]

\* main.py 93-110: query = validate_rag_query(raw_query), then the
\* retriever is built and the chain invoked with query.
QueryMain ==
    /\ rq.pc = "idle"
    /\ \E raw \in QueryArgs :
          LET v == validate_rag_query(raw)
          IN  rq' = IF v.ok
                    THEN [IdleQuery EXCEPT !.pc = "accepted", !.path = "main",
                                           !.raw = raw, !.query = v.query]
                    ELSE [IdleQuery EXCEPT !.pc = "done", !.path = "main",
                                           !.raw = raw, !.exc = v.exc]
    /\ UNCHANGED <<anon, hfile, hist, builds, uuids>>
    /\ UNCHANGED <<call, orchVars, chunkVars, ingVars, embVars, upsVars>>

\* agent.py 156-162: retrieval_tool(query) hands the string the agent
\* chose to retriever.get_relevant_documents as it is.
QueryTool ==
    /\ rq.pc = "idle"
    /\ HasRetriever
    /\ \E raw \in QueryStrings :
          rq' = [IdleQuery EXCEPT !.pc = "accepted", !.path = "tool",
                                  !.raw = raw, !.query = raw.chars]
    /\ UNCHANGED <<anon, hfile, hist, builds, uuids>>
    /\ UNCHANGED <<call, orchVars, chunkVars, ingVars, embVars, upsVars>>

\* An exception of a stage's dependency: no retriever of the composite
\* catches it.  RetrievalQA lets it propagate (main.py); retrieval_tool
\* catches it and returns the text "Retrieval error: ..." (agent.py 164).
StageFailed(r, stage, prior) ==
    [r EXCEPT !.pc = "done", !.stages = Append(@, stage), !.failed = stage,
              !.prior = prior, !.results = {},
              !.exc = IF r.path = "main" THEN "StageError" ELSE "none",
              !.ret = IF r.path = "main" THEN "none" ELSE "error_text"]

\* EnsembleRetriever invokes its retrievers in order: BM25Retriever first
\* (k = 3), which needs nothing outside the process.
RetrieveBm25 ==
    /\ rq.pc = "accepted"
    /\ HasRetriever
    /\ \E top \in SUBSET RetrieverDocs :
          /\ Cardinality(top) = Min2(3, Cardinality(RetrieverDocs))
          /\ rq' = [rq EXCEPT !.pc = "expand", !.stages = Append(@, "bm25"),
                              !.bm25 = top, !.results = top]
    /\ UNCHANGED <<anon, hfile, hist, builds, uuids>>
    /\ UNCHANGED <<call, orchVars, chunkVars, ingVars, embVars, upsVars>>

\* MultiQueryRetriever.generate_queries: the LLM writes the variants.
RetrieveExpand ==
    /\ rq.pc = "expand"
    /\ \/ rq' = [rq EXCEPT !.pc = "search", !.stages = Append(@, "expand")]
       \/ rq' = StageFailed(rq, "expand", rq.results)
    /\ UNCHANGED <<anon, hfile, hist, builds, uuids>>
    /\ UNCHANGED <<call, orchVars, chunkVars, ingVars, embVars, upsVars>>

\* ParentDocumentRetriever for every variant: similarity search over the
\* children in the vector store, then the parents of the hits; the
\* ensemble fuses them with the BM25 hits.  Without any doc the
\* compression retriever returns [] and does not call the compressor.
RetrieveSearch ==
    /\ rq.pc = "search"
    /\ \/ \E hits \in {{}, RetrieverDocs} :
             LET fused == rq.bm25 \cup hits
             IN  rq' = [rq EXCEPT !.pc = IF fused = {} THEN "done" ELSE "compress",
                                  !.stages = Append(@, "search"),
                                  !.results = fused,
                                  !.ret = IF fused = {} THEN "docs" ELSE "none"]
       \/ rq' = StageFailed(rq, "search", rq.results)
    /\ UNCHANGED <<anon, hfile, hist, builds, uuids>>
    /\ UNCHANGED <<call, orchVars, chunkVars, ingVars, embVars, upsVars>>

\* LLMChainExtractor.compress_documents: the LLM keeps or drops the docs.
RetrieveCompress ==
    /\ rq.pc = "compress"
    /\ \/ \E kept \in {{}, rq.results} :
             rq' = [rq EXCEPT !.pc = "done", !.stages = Append(@, "compress"),
                              !.results = kept, !.ret = "docs"]
       \/ rq' = StageFailed(rq, "compress", rq.results)
    /\ UNCHANGED <<anon, hfile, hist, builds, uuids>>
    /\ UNCHANGED <<call, orchVars, chunkVars, ingVars, embVars, upsVars>>

\* The caller has its answer; the next query can come.
RetrieveDone ==
    /\ rq.pc = "done"
    /\ rq' = IdleQuery
    /\ UNCHANGED <<anon, hfile, hist, builds, uuids>>
    /\ UNCHANGED <<call, orchVars, chunkVars, ingVars, embVars, upsVars>>

\* What the index holds after the docs were upserted by
\* upsert_documents_to_pinecone_async in this process.
UpsertedDocs ==
    LET docs == [j \in 1..MaxDocs |-> RetrieverDoc(j)]
    IN  IndexUpsert({}, UpsertPayload(docs,
            [j \in 1..MaxDocs |-> Truncate(NativeVec(docs[j].page_content, 1))]))

\* ------------------------------------------------------------------------
\* Specifications
\* ------------------------------------------------------------------------
\* The process starts with the key set or not; the cache is empty, or it is
\* the full cache earlier calls left.
InitEmbed ==
    /\ native_dim \in ProviderDims
    /\ google_key \in BOOLEAN
    /\ client = 0
    /\ instances = 0
    /\ threads = IdleThreads
    /\ \/ cache = <<>> /\ known = [k \in 1..NKeys |-> NoVec]
       \/ /\ google_key
          /\ cache = FullCache
          /\ known = [k \in 1..NKeys |-> IF k = 1 THEN FullCache[1].vec ELSE NoVec]
    /\ ecall = IdleCall
    /\ lcall = IdleListCall

InitIdleEmbed ==
    /\ google_key = TRUE
    /\ client = 0
    /\ instances = 0
    /\ threads = IdleThreads
    /\ cache = <<>>
    /\ known = [k \in 1..NKeys |-> NoVec]
    /\ ecall = IdleCall
    /\ native_dim = NativeDim
    /\ lcall = IdleListCall

\* The process starts with the key set or not, the index absent or already
\* there, and a hash seed: seeds are labels, the first process's is 1.
InitUpsert ==
    /\ pinecone_key \in BOOLEAN
    /\ hash_seed = 1
    /\ index \in {NoIndex, create_index(TRUE)}
    /\ store = {}
    /\ ucall = IdleUpsert

InitIdleUpsert ==
    /\ pinecone_key = TRUE
    /\ hash_seed = 1
    /\ index = NoIndex
    /\ store = {}
    /\ ucall = IdleUpsert

InitIdleSources ==
    /\ call = NoCall
    /\ opc = "idle"
    /\ ocfg = [files |-> FALSE, rag_import |-> TRUE, gmail |-> FALSE,
               slack |-> FALSE, crm |-> FALSE]
    /\ tasks = <<>>
    /\ order = <<>>
    /\ crm_ret = [called |-> FALSE, docs |-> <<>>]
    /\ all_docs = <<>>
    /\ oraised = FALSE
    /\ pf_file = [path |-> "f1", kind |-> "ok", text |-> <<>>]
    /\ pf_async = NotRun
    /\ pf_sync = NotRun
    /\ ipc = "idle"
    /\ file_paths = <<>>
    /\ fs = [p \in Paths |-> "missing"]
    /\ itasks = <<>>
    /\ fallback_calls = <<>>
    /\ all_chunks = <<>>
    /\ iraised = FALSE

InitIdleAnon == anon = IdleAnon

InitIdleHistory ==
    /\ hfile = NoFile
    /\ hist = IdleHistory

InitIdleRetriever ==
    /\ builds = <<>>
    /\ uuids = 0
    /\ rq = IdleQuery

InitRest == InitIdleSources /\ InitIdleAnon /\ InitIdleHistory /\ InitIdleRetriever

Init == InitRest /\ InitIdleEmbed /\ InitIdleUpsert

\* The connectors, called one at a time.
NextConn == CallSlack \/ CallGmail \/ CallCrm
SpecConn == Init /\ [][NextConn]_vars

\* The multi-source orchestrator.
NextOrch == OrchStart \/ OrchTaskDone \/ OrchCollect \/ OrchCrm
SpecOrch == Init /\ [][NextOrch]_vars

\* Both chunking paths on one file.
NextChunk == RunAsync \/ RunSyncFallback
SpecChunk == Init /\ [][NextChunk]_vars

\* File ingestion.
NextIngest == IngestStart \/ IngestTaskDone \/ IngestCollect
SpecIngest == Init /\ [][NextIngest]_vars

\* Single-string embedding with cache and retries.
NextEmbed == EmbedCall \/ EmbedAttempt \/ EmbedSleep \/ EmbedDone
InitSpecEmbed == InitRest /\ InitEmbed /\ InitIdleUpsert
SpecEmbed == InitSpecEmbed /\ [][NextEmbed]_vars

\* embed_text with strings, lists and other values, from an empty cache.
InitSpecEmbedList ==
    /\ InitRest /\ InitIdleUpsert
    /\ native_dim \in ProviderDims
    /\ google_key \in BOOLEAN
    /\ client = 0
    /\ instances = 0
    /\ threads = IdleThreads
    /\ cache = <<>>
    /\ known = [k \in 1..NKeys |-> NoVec]
    /\ ecall = IdleCall
    /\ lcall = IdleListCall

NextEmbedList == NextEmbed \/ EmbedListCall \/ EmbedListAttempt \/ EmbedListSleep
SpecEmbedList == InitSpecEmbedList /\ [][NextEmbedList]_vars

\* get_embeddings_client called from several threads.
InitSpecClient ==
    /\ InitRest /\ InitIdleUpsert
    /\ native_dim = NativeDim
    /\ google_key \in BOOLEAN
    /\ client = 0
    /\ instances = 0
    /\ threads = IdleThreads
    /\ cache = <<>>
    /\ known = [k \in 1..NKeys |-> NoVec]
    /\ ecall = IdleCall
    /\ lcall = IdleListCall

ThreadStep(t) ==
    \/ ThreadCheck(t) \/ ThreadGetenv(t) \/ ThreadConstruct(t)
    \/ ThreadAssign(t) \/ ThreadReturn(t)

NextClient == \E t \in 1..NThreads : ThreadStep(t)
SpecClient == InitSpecClient /\ [][NextClient]_vars

\* One upsert of a chunk list into the vector store.
InitUpsertEmbed ==
    /\ google_key \in BOOLEAN
    /\ client = 0
    /\ instances = 0
    /\ threads = IdleThreads
    /\ cache = <<>>
    /\ known = [k \in 1..NKeys |-> NoVec]
    /\ ecall = IdleCall
    /\ native_dim = NativeDim
    /\ lcall = IdleListCall

NextUpsert ==
    \/ UpsertStart \/ UpsertInitAttempt \/ UpsertInitSleep
    \/ UpsertEmbed \/ UpsertWrite \/ UpsertRerun
InitSpecUpsert == InitRest /\ InitUpsertEmbed /\ InitUpsert
SpecUpsert == InitSpecUpsert /\ [][NextUpsert]_vars

\* anonymize_text on one text.
NextAnon == AnonymizeCall
SpecAnon == Init /\ [][NextAnon]_vars

\* One chat history instance on a path that may hold a file already.
InitSpecHistory ==
    /\ InitIdleSources /\ InitIdleEmbed /\ InitIdleUpsert
    /\ InitIdleAnon /\ InitIdleRetriever
    /\ hfile \in InitialFiles
    /\ hist = IdleHistory

NextHistory == HistoryNew \/ HistoryAdd \/ HistoryClear
SpecHistory == InitSpecHistory /\ [][NextHistory]_vars

\* Retrievers built and queried in one process, against the index with or
\* without the chunks an upsert wrote.
InitSpecRetrieve ==
    /\ InitIdleSources /\ InitUpsertEmbed
    /\ InitIdleAnon /\ InitIdleHistory /\ InitIdleRetriever
    /\ pinecone_key \in BOOLEAN
    /\ hash_seed = 1
    /\ index = create_index(TRUE)
    /\ store \in {{}, UpsertedDocs}
    /\ ucall = IdleUpsert

NextRetrieve ==
    \/ BuildRetriever \/ QueryMain \/ QueryTool \/ RetrieveBm25
    \/ RetrieveExpand \/ RetrieveSearch \/ RetrieveCompress \/ RetrieveDone
SpecRetrieve == InitSpecRetrieve /\ [][NextRetrieve]_vars

Next ==
    \/ NextConn \/ NextOrch \/ NextChunk \/ NextIngest \/ NextEmbedList
    \/ NextClient \/ NextUpsert \/ NextAnon \/ NextHistory \/ NextRetrieve
Spec == Init /\ [][Next]_vars

\* ------------------------------------------------------------------------
\* Properties
\* ------------------------------------------------------------------------
RECURSIVE SumLen(_)
SumLen(ss) == IF ss = <<>> THEN 0 ELSE Len(Head(ss)) + SumLen(Tail(ss))

\* The per-source lists of the tasks, in enqueue order (none for a failed one).
TaskDocs == [i \in 1..Len(tasks) |-> IF tasks[i].exc THEN <<>> ELSE tasks[i].docs]

\* C1: whatever subset of the gathered source tasks raised, the
\* orchestrator call returns normally, its result holds every Document of
\* every task that did not raise and of the CRM loader, and nothing else.
C1_FailureIsolated ==
    opc = "done" =>
        /\ ~oraised
        /\ \A i \in 1..Len(tasks) :
              ~tasks[i].exc => Range(tasks[i].docs) \subseteq Range(all_docs)
        /\ Range(crm_ret.docs) \subseteq Range(all_docs)
        /\ Len(all_docs) = SumLen(TaskDocs) + Len(crm_ret.docs)

C1_Witness ==
    /\ opc = "done"
    /\ \E i \in 1..Len(tasks) : tasks[i].exc
    /\ \E i \in 1..Len(tasks) : ~tasks[i].exc /\ tasks[i].docs # <<>>
    /\ crm_ret.called /\ crm_ret.docs # <<>>

\* A connector call hit an authentication, network or parse failure of any
\* kind (C2 as stated): a credential or file is missing, an API call or the
\* file read raised, or an item could not be parsed.
AnyFailure ==
    CASE call.fn = "slack" ->
            \/ ~call.world.token \/ ~call.world.channel
            \/ call.world.join \in {"missing_scope", "network_error"}
            \/ call.world.history # "ok"
            \/ \E i \in 1..Len(call.world.messages) : call.world.messages[i].kind = "bad"
      [] call.fn = "gmail" ->
            \/ call.world.creds \in {"refresh_fail", "flow_fail", "no_credentials_file"}
            \/ call.world.list # "ok"
            \/ \E i \in 1..Len(call.world.messages) : call.world.messages[i].kind = "bad"
      [] call.fn = "crm" ->
            \/ ~call.world.exists \/ ~call.world.readable
            \/ call.world.ext \notin {".json", ".csv"}
            \/ \E i \in 1..Len(call.world.records) : call.world.records[i].kind = "bad"
      [] OTHER -> FALSE

\* The same, except that a SlackApiError of the channel join does not count.
FetchFailure ==
    CASE call.fn = "slack" ->
            \/ ~call.world.token \/ ~call.world.channel
            \/ call.world.join = "network_error"
            \/ call.world.history # "ok"
            \/ \E i \in 1..Len(call.world.messages) : call.world.messages[i].kind = "bad"
      [] OTHER -> AnyFailure

OnePlaceholder ==
    /\ ~call.ret.raised
    /\ Len(call.ret.docs) = 1
    /\ call.ret.docs[1].source = call.fn
    /\ call.ret.docs[1].error

C3_AllAnonymized ==
    call.fn # "none" =>
        \A i \in 1..Len(call.ret.docs) :
            /\ anonymize_text(call.ret.docs[i].page_content) = call.ret.docs[i].page_content
            /\ Range(call.ret.docs[i].page_content) \cap PIITokens = {}

\* C4: the returned list is the concatenation of the per-source lists in
\* enqueue order (files, Gmail, Slack, then CRM), whatever the order in
\* which the tasks completed.
C4_EnqueueOrder ==
    (opc = "done" /\ ~oraised) => all_docs = Flatten(TaskDocs) \o crm_ret.docs

\* The tasks completed in another order than they were enqueued.
C4_Witness ==
    /\ opc = "done"
    /\ Len(tasks) = 3
    /\ order = <<3, 1, 2>>
    /\ \A i \in 1..3 : tasks[i].docs # <<>>
    /\ crm_ret.docs # <<>>

\* The paths of the files whose async task raised, in task order.
RECURSIVE RaisedPaths(_)
RaisedPaths(ts) ==
    IF ts = <<>> THEN <<>>
    ELSE (IF Head(ts).raised THEN <<Head(ts).path>> ELSE <<>>) \o RaisedPaths(Tail(ts))

\* What each task's file should contribute: its async chunks, else the
\* chunks of its own sync fallback, else nothing.
OwnChunks(t) ==
    IF ~t.raised THEN t.chunks
    ELSE LET r == process_file_sync_fallback(File(t.path, fs))
         IN  IF r.raised THEN <<>> ELSE r.chunks

\* C5: the sync fallback is invoked for exactly the files whose async task
\* raised, each with that file's own path; a file whose fallback fails too
\* contributes nothing and the call does not raise; the chunks of every
\* other file are returned.
C5_FallbackPerFile ==
    (ipc = "done" /\ itasks # <<>>) =>
        /\ ~iraised
        /\ fallback_calls = RaisedPaths(itasks)
        /\ all_chunks = Flatten([i \in 1..Len(itasks) |-> OwnChunks(itasks[i])])

\* C6: for the same file, process_file_async and process_file_sync_fallback
\* yield the same sequence of chunk contents.
C6_SameChunks ==
    (pf_async.ran /\ pf_sync.ran /\ ~pf_async.raised /\ ~pf_sync.raised) =>
        PageContents(pf_async.chunks) = PageContents(pf_sync.chunks)

\* ------------------------------------------------------------------------
\* Retries and cache of the embedding layer
\* ------------------------------------------------------------------------
FailedBefore(outcomes, n) == \A j \in 1..(n - 1) : ~outcomes[j].ok

\* C7: a call of _embed_batch invokes the provider at most 3 times; nothing
\* is attempted after a successful attempt, whose (truncated) result is what
\* the call returns; a call that raises has made exactly 3 failed attempts
\* and raises the exception of the third.
C7_AtMostThreeAttempts ==
    LET n == Len(ecall.outcomes)
    IN  /\ ecall.provider_calls <= 3
        /\ n <= 3
        /\ FailedBefore(ecall.outcomes, n)
        /\ (ecall.pc = "returned" /\ ~ecall.hit) =>
              /\ n >= 1
              /\ ecall.outcomes[n].ok
              /\ ecall.ret = Truncate(ecall.outcomes[n].vec)
        /\ (ecall.pc = "raised" /\ ecall.exc.kind # "ValueError") =>
              /\ n = 3
              /\ ~ecall.outcomes[3].ok
              /\ ecall.exc = ecall.outcomes[3].exc

\* Three failed provider calls, then the third exception is raised.
C7_Witness ==
    /\ ecall.pc = "raised"
    /\ ecall.provider_calls = 3
    /\ ecall.exc = [kind |-> "ProviderError", attempt |-> 3]

\* C8: an attempt of _embed_batch that fails because GOOGLE_API_KEY is
\* missing is the only attempt: the call has raised, and no back-off wait
\* was made.
C8_MissingKeyNotRetried ==
    (\E j \in 1..Len(ecall.outcomes) : ecall.outcomes[j].exc.kind = "EnvironmentError") =>
        /\ ecall.pc = "raised"
        /\ Len(ecall.outcomes) = 1
        /\ ecall.waits = <<>>

\* C9: an upsert call of upsert_documents_to_pinecone_async that fails is
\* surfaced to the caller only after 3 attempts.
C9_UpsertRetried ==
    (ucall.pc = "raised" /\ ucall.exc.kind = "UpsertError") => ucall.write_attempts = 3

\* C10: a single-string call for a text whose earlier successful call's
\* cache entry has not been evicted returns the vector that call returned
\* and makes no provider call.
C10_CacheHit ==
    ecall.prior # NoVec =>
        /\ ecall.pc = "returned"
        /\ ecall.ret = ecall.prior
        /\ ecall.provider_calls = 0

\* A hit for a text given with surrounding blanks.
C10_Witness ==
    /\ ecall.pc = "returned"
    /\ ecall.prior # NoVec
    /\ ecall.raw # strip(ecall.raw)
    /\ ecall.ret = ecall.prior
    /\ ecall.provider_calls = 0

\* ------------------------------------------------------------------------
\* embed_text on lists: caching, width, batching, validation
\* ------------------------------------------------------------------------
\* C11: no embedding is computed for a text the cache holds, and none is
\* computed twice within one list: every text a list call has got an
\* embedding for from the provider is absent from the cache and differs
\* from the texts before it in the list.
C11_ComputedOnce ==
    \A j \in 1..Len(lcall.all_embeddings) :
        /\ CacheIndex(cache, lcall.validated[j]) = 0
        /\ \A l \in 1..(j - 1) : lcall.validated[l] # lcall.validated[j]

\* C13: with a provider whose vectors are at least 768 wide, every vector
\* embed_text returns, for a string (hit or miss) or in a list, is exactly
\* 768 wide.
C13_Width768 ==
    native_dim >= 768 =>
        /\ ecall.pc = "returned" => ecall.ret.dim = 768
        /\ lcall.pc = "returned" =>
              \A j \in 1..Len(lcall.ret) : lcall.ret[j].dim = 768

\* A list of more than one batch returned from a provider of native width 3072.
C13_Witness ==
    /\ native_dim = 3072
    /\ lcall.pc = "returned"
    /\ Len(lcall.ret) > MAX_BATCH_SIZE
    /\ \A j \in 1..Len(lcall.ret) : lcall.ret[j].dim = 768

CeilDiv(n, d) == (n + d - 1) \div d

\* The ranges are the consecutive batches of at most 10 of a list of n.
ConsecutiveBatches(ranges, n) ==
    /\ Len(ranges) = CeilDiv(n, 10)
    /\ \A b \in 1..Len(ranges) :
          /\ ranges[b][1] = (IF b = 1 THEN 1 ELSE ranges[b - 1][2] + 1)
          /\ ranges[b][2] - ranges[b][1] + 1 <= 10
          /\ ranges[b][2] >= ranges[b][1]
    /\ ranges # <<>> => ranges[Len(ranges)][2] = n

\* The list returned is one embedding per input, in input order.
ReturnsPerInput ==
    /\ Len(lcall.ret) = Len(lcall.items)
    /\ \A j \in 1..Len(lcall.ret) : lcall.ret[j].text = strip(lcall.items[j])

\* C14 (as stated): a returned list call of n texts has made exactly
\* ceil(n/10) provider calls, whose batches of at most 10 cover the inputs
\* in order without gap or overlap, and returns one embedding per input.
C14_ExactProviderCalls ==
    lcall.pc = "returned" =>
        /\ ConsecutiveBatches(lcall.sent, Len(lcall.items))
        /\ ReturnsPerInput

\* The batches sent, without the re-sends of a failed batch.
RECURSIVE Dedup(_)
Dedup(ranges) ==
    IF Len(ranges) <= 1 THEN ranges
    ELSE IF ranges[1] = ranges[2] THEN Dedup(Tail(ranges))
    ELSE <<ranges[1]>> \o Dedup(Tail(ranges))

\* C14 (amended): a returned list call of n texts has made exactly
\* ceil(n/10) _embed_batch calls and between ceil(n/10) and 3*ceil(n/10)
\* provider calls; apart from re-sends of a failed batch, the batches of at
\* most 10 cover the inputs in order without gap or overlap; one embedding
\* per input is returned.
C14_BatchCalls ==
    lcall.pc = "returned" =>
        LET n == Len(lcall.items)
        IN  /\ lcall.batch_calls = CeilDiv(n, 10)
            /\ Len(lcall.sent) >= CeilDiv(n, 10)
            /\ Len(lcall.sent) <= 3 * CeilDiv(n, 10)
            /\ ConsecutiveBatches(Dedup(lcall.sent), n)
            /\ ReturnsPerInput

\* A list of more than two batches returned after a failed attempt.
C14_Witness ==
    /\ lcall.pc = "returned"
    /\ Len(lcall.items) > 2 * MAX_BATCH_SIZE
    /\ Len(lcall.sent) > lcall.batch_calls

\* C15: invalid input is rejected with no provider call, no attempt and no
\* wait: a blank string and a list with a blank item raise ValueError, a
\* value that is neither raises TypeError; an empty list returns [].
C15_RejectedBeforeProvider ==
    LET untouched == /\ lcall.sent = <<>>
                     /\ lcall.batch_calls = 0
                     /\ lcall.attempt = 0
                     /\ lcall.waits = <<>>
    IN  /\ (ecall.pc # "idle" /\ strip(ecall.raw) = <<>>) =>
              /\ ecall.pc = "raised"
              /\ ecall.exc.kind = "ValueError"
              /\ ecall.provider_calls = 0
              /\ ecall.attempt = 0
              /\ ecall.waits = <<>>
        /\ (lcall.pc # "idle" /\ lcall.type = "list"
                /\ \E j \in 1..Len(lcall.items) : strip(lcall.items[j]) = <<>>) =>
              /\ lcall.pc = "raised"
              /\ lcall.exc.kind = "ValueError"
              /\ untouched
        /\ (lcall.pc # "idle" /\ lcall.type # "list") =>
              /\ lcall.pc = "raised"
              /\ lcall.exc.kind = "TypeError"
              /\ untouched
        /\ (lcall.pc # "idle" /\ lcall.type = "list" /\ lcall.items = <<>>) =>
              /\ lcall.pc = "returned"
              /\ lcall.ret = <<>>
              /\ untouched

\* A list whose only blank item lies beyond the first batch is rejected.
C15_Witness ==
    /\ lcall.pc = "raised"
    /\ lcall.exc.kind = "ValueError"
    /\ Len(lcall.items) > MAX_BATCH_SIZE
    /\ \A j \in 1..MAX_BATCH_SIZE : strip(lcall.items[j]) # <<>>
    /\ lcall.sent = <<>>

\* ------------------------------------------------------------------------
\* The embeddings client singleton
\* ------------------------------------------------------------------------
\* C12: at most one client instance is ever constructed, every call that
\* returned, on whichever thread, returned that one instance, and while no
\* instance was constructed (the key is missing) the global stays unset.
C12_Singleton ==
    /\ instances <= 1
    /\ \A t \in 1..NThreads :
          /\ threads[t].pc = "returned" => threads[t].ret = 1
          /\ threads[t].pc = "raised" => client = 0

\* ------------------------------------------------------------------------
\* upsert_documents_to_pinecone_async
\* ------------------------------------------------------------------------
NonBlank(chunks) == SelectSeq(chunks, LAMBDA c : strip(c.page_content) # <<>>)

NothingCalled ==
    /\ ucall.attempt = 0
    /\ ucall.log = <<>>
    /\ ucall.embed_calls = 0
    /\ ucall.write_attempts = 0

\* C16: an empty chunk list returns with no index, embedding or upsert
\* call; a non-empty list of blank chunks raises ValueError before any such
\* call; otherwise exactly the non-blank chunks, in order, are what is
\* embedded and written.
C16_Validation ==
    ucall.pc # "idle" =>
        /\ ucall.chunks = <<>> => (ucall.pc = "returned" /\ NothingCalled)
        /\ (ucall.chunks # <<>> /\ NonBlank(ucall.chunks) = <<>>) =>
              /\ ucall.pc = "raised"
              /\ ucall.exc.kind = "ValueError"
              /\ NothingCalled
        /\ ucall.valid = NonBlank(ucall.chunks)
        /\ \A k \in 1..Len(ucall.log) :
              ucall.log[k].op # "init" =>
                  /\ 1 <= ucall.log[k].lo
                  /\ ucall.log[k].hi <= Len(NonBlank(ucall.chunks))
        /\ \A j \in 1..Len(ucall.payload) : ucall.payload[j].values.text # <<>>

\* A list with blank and non-blank chunks was upserted.
C16_Witness ==
    /\ ucall.pc = "returned"
    /\ ucall.valid # <<>>
    /\ Len(ucall.valid) < Len(ucall.chunks)
    /\ ucall.total_upserted = Len(ucall.valid)

\* C17: the index initialisation returns before anything is embedded or
\* written; then, batch after batch of at most 50 consecutive valid chunks,
\* the batch is embedded and then written; on normal return the batches
\* written cover every valid chunk once and the total equals their number.
C17_Order ==
    LET L  == ucall.log
        nv == Len(ucall.valid)
    IN  /\ \A k \in 1..Len(L) :
              IF k = 1 THEN L[k].op = "init"
              ELSE IF k % 2 = 0
              THEN /\ L[k].op = "embed"
                   /\ L[k].lo = 50 * ((k - 2) \div 2) + 1
                   /\ L[k].hi = Min2(L[k].lo + 49, nv)
              ELSE /\ L[k].op = "write"
                   /\ L[k].lo = L[k - 1].lo
                   /\ L[k].hi = L[k - 1].hi
        /\ (ucall.pc = "returned" /\ nv > 0) =>
              /\ Len(L) = 1 + 2 * CeilDiv(nv, 50)
              /\ L[Len(L)].op = "write"
              /\ L[Len(L)].hi = nv
              /\ ucall.total_upserted = nv

\* More than two full batches were written.
C17_Witness ==
    /\ ucall.pc = "returned"
    /\ Len(ucall.valid) > 2 * MAX_UPSERT_BATCH_SIZE
    /\ ucall.total_upserted = Len(ucall.valid)

\* C18: once init_pinecone_index has returned normally, the index exists
\* with dimension 768 and cosine metric and has been reported ready.
C18_IndexReady ==
    ucall.log # <<>> =>
        /\ index.exists
        /\ index.dimension = 768
        /\ index.metric = "cosine"
        /\ index.ready

\* The first valid chunk of the last payload handed to index.upsert.
LastWriteLo ==
    LET ks == {k \in 1..Len(ucall.log) : ucall.log[k].op = "write"}
    IN  ucall.log[CHOOSE k \in ks : \A l \in ks : l <= k].lo

\* C19: every entry handed to the vector store has a metadata "text" equal
\* to its chunk's page_content and carries the chunk's metadata keys.
C19_TextKept ==
    \A j \in 1..Len(ucall.payload) :
        LET doc == ucall.valid[LastWriteLo + j - 1]
        IN  /\ ucall.payload[j].metadata["text"] = doc.page_content
            /\ DOMAIN doc.metadata \subseteq DOMAIN ucall.payload[j].metadata

\* C20: the id is a function of content and timestamp alone, in every run:
\* the store never holds two ids for one content-plus-timestamp string.
C20_DeterministicIds ==
    Cardinality({e.id : e \in store}) = Cardinality({e.id.str : e \in store})

\* ------------------------------------------------------------------------
\* Slack connector without configuration
\* ------------------------------------------------------------------------
\* C25: when SLACK_BOT_TOKEN is unset or no channel id is given, the
\* connector returns exactly one placeholder Document with source "slack",
\* and neither a Slack client is constructed nor a Slack API call made.
C25_NoSlackCallWithoutConfig ==
    (call.fn = "slack" /\ (~call.world.token \/ ~call.world.channel)) =>
        /\ ~call.ret.raised
        /\ Len(call.ret.docs) = 1
        /\ call.ret.docs[1].source = "slack"
        /\ call.ret.docs[1].error
        /\ Head(call.ret.docs[1].page_content) = "[SLACK_AUTH_ERROR]"
        /\ call.ret.api = <<>>

\* The token is set, the channel id is missing, and the Slack API would
\* have answered with messages.
C25_Witness ==
    /\ call.fn = "slack"
    /\ call.world.token
    /\ ~call.world.channel
    /\ call.world.join = "ok"
    /\ call.world.history = "ok"
    /\ Len(call.world.messages) = MaxItems
    /\ Len(call.ret.docs) = 1

\* ------------------------------------------------------------------------
\* ingest_documents_async: results and paths
\* ------------------------------------------------------------------------
\* The chunks of the output that carry the given path as their source.
ChunksFrom(path) == SelectSeq(all_chunks, LAMBDA c : c.source = path)

\* C27: for a file_paths list without repeated paths, the chunks of each
\* existing file that loads are in the output exactly once: the output's
\* chunks from that path are the chunks its own task produced.
C27_ChunksOnce ==
    (ipc = "done" /\ ~iraised /\ Cardinality(Range(file_paths)) = Len(file_paths)) =>
        \A i \in 1..Len(itasks) :
            fs[itasks[i].path] = "ok" => ChunksFrom(itasks[i].path) = itasks[i].chunks

\* ------------------------------------------------------------------------
\* upsert_documents_to_pinecone_async: ids within a run, failing batches
\* ------------------------------------------------------------------------
\* C28: when the first run into an empty index returns, the index holds as
\* many entries as the run reports as upserted.
C28_DistinctIds ==
    (ucall.pc = "returned" /\ ucall.run = 1) => Cardinality(store) = ucall.total_upserted

\* The ids of the first n valid chunks, as this process computes them.
IdsUpTo(n) == {doc_id(ucall.valid[j]) : j \in 1..n}

\* C29: when embedding or writing a batch fails, the exception leaves the
\* call; every batch before it stays written, the failed batch and the
\* batches after it are not written, and nothing after the failed step was
\* embedded or written.
C29_NoRollback ==
    (ucall.pc = "raised" /\ ucall.exc.kind \in {"ProviderError", "UpsertError"}) =>
        LET L    == ucall.log
            last == L[Len(L)]
        IN  /\ ucall.total_upserted = ucall.i
            /\ IdsUpTo(ucall.i) \subseteq {e.id : e \in store}
            /\ ucall.run = 1 => {e.id : e \in store} = IdsUpTo(ucall.i)
            /\ last.op = (IF ucall.exc.kind = "ProviderError" THEN "embed" ELSE "write")
            /\ last.lo = ucall.i + 1
            /\ \A k \in 1..Len(L) : L[k].hi <= last.hi

\* The third batch failed to be written after two batches were written.
C29_Witness ==
    /\ ucall.pc = "raised"
    /\ ucall.exc.kind = "UpsertError"
    /\ ucall.i = 2 * MAX_UPSERT_BATCH_SIZE
    /\ Cardinality(store) = 2 * MAX_UPSERT_BATCH_SIZE

\* ------------------------------------------------------------------------
\* anonymize_text: SSN before phone, nothing left of the PII
\* ------------------------------------------------------------------------
\* sub occurs in t as a run of consecutive characters
Occurs(sub, t) ==
    \E i \in 1..(Len(t) - Len(sub) + 1) : SubSeq(t, i, i + Len(sub) - 1) = sub

PlaceholderOf(class) ==
    CASE class = "email" -> "[ANONYMIZED_EMAIL]"
      [] class = "ssn"   -> "[ANONYMIZED_SSN]"
      [] class = "phone" -> "[ANONYMIZED_PHONE]"

\* C23: a text with a substring of the shape ddd-dd-dddd comes back with
\* [ANONYMIZED_SSN] in its place and without any [ANONYMIZED_PHONE].
C23_SsnNeverPhone ==
    (anon.pc = "done" /\ anon.core.class = "ssn") =>
        /\ "[ANONYMIZED_SSN]" \in Range(anon.out)
        /\ "[ANONYMIZED_PHONE]" \notin Range(anon.out)

\* C24: a text with an email address, an SSN-shaped or a phone-shaped
\* substring comes back without that substring and with the placeholder
\* of its class.
C24_PiiReplaced ==
    (anon.pc = "done" /\ anon.core.class \in {"email", "ssn", "phone"}) =>
        /\ ~Occurs(anon.core.chars, anon.out)
        /\ PlaceholderOf(anon.core.class) \in Range(anon.out)

\* ------------------------------------------------------------------------
\* JSONFileChatMessageHistory: what a new instance finds
\* ------------------------------------------------------------------------
\* After clear() returned: nothing in memory, no file, nothing to load.
ClearedAll ==
    hist.last = "clear" =>
        /\ hist.messages = <<>>
        /\ hfile.kind = "absent"
        /\ NewHistory(hfile) = <<>>

C21_ValidatedBeforeRetrieval ==
    rq.pc # "idle" =>
        LET v == validate_rag_query(rq.raw)
        IN  /\ rq.stages # <<>> => (v.ok /\ rq.query = v.query)
            /\ ~v.ok => (rq.pc = "done" /\ rq.exc = v.exc /\ rq.stages = <<>>)

\* C22: a retrieval in which the dependency of a stage failed ends
\* without an exception and returns the result set of the stage before.
C22_StageFallback ==
    (rq.pc = "done" /\ rq.failed # "none") =>
        /\ rq.exc = "none"
        /\ rq.ret = "docs"
        /\ rq.results = rq.prior

\* The children of the docs, in the order they are written.
ChildTexts(docs) == Flatten([j \in 1..Len(docs) |-> ChildSplit(docs[j])])

WrittenIds(b) == {b.written[i].id : i \in 1..Len(b.written)}

\* C30: every build that returned wrote one entry per child chunk of its
\* docs into the vector store, under ids of its own that are neither the
\* content-hash ids of the docs nor ids of another build, and filled a
\* docstore of its own with one parent per doc; nothing of it is removed.
C30_BuildWrites ==
    \A k \in 1..Len(builds) :
        LET b == builds[k]
        IN  /\ Range(b.written) \subseteq store
            /\ b.ok =>
                  /\ [i \in 1..Len(b.written) |-> b.written[i].metadata["text"]]
                        = ChildTexts(b.docs)
                  /\ Cardinality(WrittenIds(b)) = Len(ChildTexts(b.docs))
                  /\ WrittenIds(b) \cap {doc_id(b.docs[j]) : j \in 1..Len(b.docs)} = {}
                  /\ Cardinality(b.parents) = Len(b.docs)
                  /\ \A l \in 1..Len(builds) :
                        l # k => /\ WrittenIds(b) \cap WrittenIds(builds[l]) = {}
                                 /\ b.parents \cap builds[l].parents = {}

\* Two builds over the same docs returned: the index holds the upserted
\* chunks and every child chunk twice.
C30_Witness ==
    /\ Len(builds) = 2
    /\ builds[1].ok /\ builds[2].ok
    /\ builds[1].docs = builds[2].docs
    /\ Len(builds[1].docs) = MaxDocs
    /\ Cardinality(store) = MaxDocs + 2 * Len(ChildTexts(builds[1].docs))

====
